---- MODULE Spec2Model ----
(***************************************************************************)
(* A model of the agent tool-use loop (src/src/agent.ts) and of the        *)
(* multi-agent orchestrator (src/unnamed/part_002).                        *)
(*                                                                         *)
(* Strings are sequences of characters; a character is a one-letter TLA+   *)
(* string.  A fixed literal of the program that no model reply can contain *)
(* (a prompt prefix, an error prefix) is written as one element.           *)
(***************************************************************************)
EXTENDS Integers, Sequences, FiniteSets, TLC

VARIABLES
    config,          \* the Config record shared by every agent and the orchestrator
    agent,           \* the OpenRouterAgent of the single-agent run
    pc,              \* where the orchestrate call stands
    userTask,        \* orchestrate's userInput
    questionAgent,   \* decomposeTask's questionAgent
    subtasks,        \* what decomposeTask returned
    workers,         \* the runAgentParallel calls, by agent index
    settled,         \* history: the agent indices in the order their promises settled
    agentProgress,   \* TaskOrchestrator.agentProgress
    agentResults,    \* TaskOrchestrator.agentResults
    results,         \* orchestrate's results array
    synthesisAgent,  \* aggregateConsensus's synthesisAgent
    synthesisInput,  \* the responses and the prompt of aggregateConsensus
    finalResult,     \* what orchestrate returned
    snapshot,        \* the map an observer got from getProgressStatus
    cli,             \* the OrchestratorCLI and its readline loop
    mainLoop,        \* the readline loop of the single-agent main
    disk             \* the files write_file works on, and what it returned

orchVars == <<pc, userTask, questionAgent, subtasks, workers, settled, agentProgress,
              agentResults, results, synthesisAgent, synthesisInput, finalResult,
              snapshot>>

\* The command-line programs and the file system: they stand still while an
\* agent or an orchestrator is looked at on its own.
shell == <<cli, mainLoop, disk>>

vars == <<config, agent, orchVars, shell>>

\* ------------------------------------------------------------- bounds
\* Largest agent.max_iterations the configuration is drawn from.
MaxIterations == 3
\* Largest orchestrator.parallel_agents the configuration is drawn from.
MaxAgents == 5
\* Largest agent.max_iterations of an orchestration.
MaxOrchIterations == 2
\* In an orchestration, the most model calls the sub-agents may make beyond
\* the first one of each, all sub-agents together.
MaxExtraCalls == 3

\* ------------------------------------------------------------ strings
DQ == "\""
NL == "\n"
EmptyText == <<>>
Separator == <<NL, NL>>

\* Array.prototype.join('\n\n') of a list of strings.
RECURSIVE Join(_)
Join(texts) ==
    IF Len(texts) = 0 THEN EmptyText
    ELSE IF Len(texts) = 1 THEN texts[1]
    ELSE texts[1] \o Separator \o Join(Tail(texts))

IsWs(c) == c \in {" ", NL}

RECURSIVE TrimLeft(_)
TrimLeft(s) == IF Len(s) > 0 /\ IsWs(s[1]) THEN TrimLeft(Tail(s)) ELSE s

RECURSIVE TrimRight(_)
TrimRight(s) ==
    IF Len(s) > 0 /\ IsWs(s[Len(s)]) THEN TrimRight(SubSeq(s, 1, Len(s) - 1)) ELSE s

\* String.prototype.trim
Trim(s) == TrimRight(TrimLeft(s))

\* ----------------------------------------------------------------- JSON
\* JSON.parse on the alphabet { " [ ] { } : , space newline letters }: on it
\* the JSON values are the strings, the arrays and the objects.
JNull == [t |-> "null", v |-> <<>>]
JStr(text) == [t |-> "str", v |-> text]
JArr(items) == [t |-> "arr", v |-> items]
JObj(members) == [t |-> "obj", v |-> members]
Member(key, val) == [key |-> <<key>>, val |-> val]
\* The values that are not JSON values: undefined, and a promise of a value.
JUndefined == [t |-> "undefined", v |-> <<>>]
JPromise(settledWith) == [t |-> "promise", v |-> <<settledWith>>]
ParseFail == [ok |-> FALSE, val |-> JNull, next |-> 0]

RECURSIVE SkipWs(_, _)
SkipWs(s, i) == IF i <= Len(s) /\ IsWs(s[i]) THEN SkipWs(s, i + 1) ELSE i

\* The index of the closing quote of the string literal whose body starts at
\* i, or 0: a raw newline inside a string literal is a syntax error.
RECURSIVE CloseQuote(_, _)
CloseQuote(s, i) ==
    IF i > Len(s) THEN 0
    ELSE IF s[i] = DQ THEN i
    ELSE IF s[i] = NL THEN 0
    ELSE CloseQuote(s, i + 1)

ParseStr(s, i) ==
    LET j == CloseQuote(s, i + 1) IN
    IF j = 0 THEN ParseFail
    ELSE [ok |-> TRUE, val |-> [t |-> "str", v |-> SubSeq(s, i + 1, j - 1)], next |-> j + 1]

RECURSIVE ParseVal(_, _)
RECURSIVE ParseElems(_, _, _)
RECURSIVE ParseMembers(_, _, _)

ParseElems(s, i, acc) ==
    LET r == ParseVal(s, i) IN
    IF ~r.ok THEN ParseFail
    ELSE LET k == SkipWs(s, r.next) IN
         IF k > Len(s) THEN ParseFail
         ELSE IF s[k] = "," THEN ParseElems(s, k + 1, Append(acc, r.val))
         ELSE IF s[k] = "]"
              THEN [ok |-> TRUE, val |-> [t |-> "arr", v |-> Append(acc, r.val)], next |-> k + 1]
         ELSE ParseFail

ParseMembers(s, i, acc) ==
    LET k == SkipWs(s, i) IN
    IF k > Len(s) \/ s[k] # DQ THEN ParseFail
    ELSE LET key == ParseStr(s, k) IN
         IF ~key.ok THEN ParseFail
         ELSE LET c == SkipWs(s, key.next) IN
              IF c > Len(s) \/ s[c] # ":" THEN ParseFail
              ELSE LET r == ParseVal(s, c + 1) IN
                   IF ~r.ok THEN ParseFail
                   ELSE LET e == SkipWs(s, r.next)
                            m == Append(acc, [key |-> key.val.v, val |-> r.val])
                        IN  IF e > Len(s) THEN ParseFail
                            ELSE IF s[e] = "," THEN ParseMembers(s, e + 1, m)
                            ELSE IF s[e] = "}"
                                 THEN [ok |-> TRUE, val |-> [t |-> "obj", v |-> m], next |-> e + 1]
                            ELSE ParseFail

ParseVal(s, i) ==
    LET k == SkipWs(s, i) IN
    IF k > Len(s) THEN ParseFail
    ELSE IF s[k] = DQ THEN ParseStr(s, k)
    ELSE IF s[k] = "["
         THEN LET e == SkipWs(s, k + 1) IN
              IF e <= Len(s) /\ s[e] = "]"
              THEN [ok |-> TRUE, val |-> [t |-> "arr", v |-> <<>>], next |-> e + 1]
              ELSE ParseElems(s, k + 1, <<>>)
    ELSE IF s[k] = "{"
         THEN LET e == SkipWs(s, k + 1) IN
              IF e <= Len(s) /\ s[e] = "}"
              THEN [ok |-> TRUE, val |-> [t |-> "obj", v |-> <<>>], next |-> e + 1]
              ELSE ParseMembers(s, k + 1, <<>>)
    ELSE ParseFail

\* JSON.parse(s): ok is FALSE where JSON.parse throws a SyntaxError.
JSONParse(s) ==
    LET r == ParseVal(s, 1) IN
    IF r.ok /\ SkipWs(s, r.next) > Len(s) THEN [ok |-> TRUE, val |-> r.val]
    ELSE [ok |-> FALSE, val |-> JNull]

\* JSON.stringify(value): a member whose value is undefined is left out, an
\* undefined array element is written null, and a promise, which has no
\* enumerable property of its own, is written {}.
RECURSIVE JSONStringify(_)
RECURSIVE StringifyElems(_, _)
RECURSIVE StringifyMembers(_, _)

StringifyElems(items, first) ==
    IF items = <<>> THEN <<>>
    ELSE (IF first THEN <<>> ELSE <<",">>)
         \o (IF Head(items).t = "undefined" THEN <<"null">> ELSE JSONStringify(Head(items)))
         \o StringifyElems(Tail(items), FALSE)

StringifyMembers(members, first) ==
    IF members = <<>> THEN <<>>
    ELSE IF Head(members).val.t = "undefined" THEN StringifyMembers(Tail(members), first)
    ELSE (IF first THEN <<>> ELSE <<",">>)
         \o <<DQ>> \o Head(members).key \o <<DQ, ":">> \o JSONStringify(Head(members).val)
         \o StringifyMembers(Tail(members), FALSE)

JSONStringify(value) ==
    IF value.t = "str" THEN <<DQ>> \o value.v \o <<DQ>>
    ELSE IF value.t = "arr" THEN <<"[">> \o StringifyElems(value.v, TRUE) \o <<"]">>
    ELSE IF value.t = "obj" THEN <<"{">> \o StringifyMembers(value.v, TRUE) \o <<"}">>
    ELSE IF value.t = "promise" THEN <<"{", "}">>
    ELSE <<"null">>

\* ---------------------------------------------------------------- tools
CompletionTool == "mark_task_complete"

\* discoverTools: the names of the five tool classes.
AllTools == {"calculate", "read_file", "search_web", CompletionTool, "write_file"}

\* What a capability does when it is invoked: it returns a payload or throws.
Outcomes == {"returns", "throws"}

\* The tools whose execute is an async function.
AsyncTools == {"search_web"}

\* new Date().toISOString()
Timestamp == <<"2026-01-01T00:00:00.000Z">>

\* TaskDoneTool.execute(taskSummary, completionMessage)
TaskDoneExecute(taskSummary, completionMessage) ==
    JObj(<<Member("status", JStr(<<"completed">>)),
           Member("task_summary", taskSummary),
           Member("completion_message", completionMessage),
           Member("timestamp", JStr(Timestamp))>>)

\* SearchTool.execute(query): the value its promise is fulfilled with; the
\* request fails where out is "throws", and the catch makes that a value.
SearchExecute(query, out) ==
    IF out = "throws"
    THEN JObj(<<Member("error", JStr(<<"Search failed: ", "Network Error">>))>>)
    ELSE JObj(<<Member("results", JArr(<<>>))>>)

\* CalculatorTool.execute(expression): both of its results carry the
\* expression it was given; the members computed by mathjs are left out.
CalculatorExecute(expression) == JObj(<<Member("expression", expression)>>)

\* The value a capability returns when it does not throw, or the value the
\* promise it returns settles with: what tool.execute(first, second) gives.
Settled(name, first, second, out) ==
    IF name = CompletionTool THEN TaskDoneExecute(first, second)
    ELSE IF name = "search_web" THEN SearchExecute(first, out)
    ELSE IF name = "calculate" THEN CalculatorExecute(first)
    ELSE JObj(<<>>)

\* this.toolMapping.get(toolName)!(toolArgs): the parsed arguments are the
\* one positional parameter, the others are undefined; an async execute
\* returns its promise.
Execute(name, toolArgs, out) ==
    IF name \in AsyncTools
    THEN JPromise(Settled(name, toolArgs, JUndefined, out))
    ELSE Settled(name, toolArgs, JUndefined, out)

NoPayload == [kind |-> "none", text |-> EmptyText, tool |-> "", args |-> JNull]
\* content: JSON.stringify(toolResult)
ResultPayload(name, args, toolResult) ==
    [kind |-> "result", text |-> JSONStringify(toolResult), tool |-> name, args |-> args]
ErrorPayload(text) == [kind |-> "error", text |-> text, tool |-> "", args |-> JNull]

UnknownToolError(name) == <<"Unknown tool: ", name>>
ToolFailedError(err) == <<"Tool execution failed: ", err>>
LLMFailedError(cause) == <<"LLM call failed: ", cause>>
MaxIterationsMessage == <<"Maximum iterations reached. The agent may be stuck in a loop.">>

Message(role, content, toolCalls, toolCallId, name, payload) ==
    [role |-> role, content |-> content, tool_calls |-> toolCalls,
     tool_call_id |-> toolCallId, name |-> name, payload |-> payload]

SystemMessage == Message("system", <<"system_prompt">>, <<>>, "", "", NoPayload)
UserMessage(userInput) == Message("user", userInput, <<>>, "", "", NoPayload)
AssistantMessage(reply) ==
    Message("assistant", reply.content, reply.tool_calls, "", "", NoPayload)
ToolMessage(toolCall, payload) ==
    Message("tool", EmptyText, <<>>, toolCall.id, toolCall.name, payload)

\* ---------------------------------------------------------------- agent
\* new OpenRouterAgent(config, silent): every discovered tool is in the
\* schema list and in the tool mapping; no run has started.
NewAgent ==
    [tools |-> AllTools, toolMapping |-> AllTools, st |-> "idle",
     messages |-> <<>>, fullResponseContent |-> <<>>, iteration |-> 0,
     result |-> EmptyText, error |-> EmptyText,
     createCalls |-> 0, executed |-> <<>>]

\* Whether handleToolCall reaches the capability of this tool call.
Invokes(a, toolCall) ==
    JSONParse(toolCall.arguments).ok /\ toolCall.name \in a.toolMapping

\* A mutant of handleToolCall: the result carries no tool_call_id.
handleToolCallNoId(a, toolCall, out) ==
    LET parsed == JSONParse(toolCall.arguments)
        anon == [toolCall EXCEPT !.id = ""]
    IN
    IF ~parsed.ok
    THEN ToolMessage(anon, ErrorPayload(ToolFailedError("SyntaxError")))
    ELSE IF toolCall.name \in a.toolMapping
         THEN IF out = "throws" /\ toolCall.name \notin AsyncTools
              THEN ToolMessage(anon, ErrorPayload(ToolFailedError("Error")))
              ELSE ToolMessage(anon, ResultPayload(toolCall.name, parsed.val,
                                                 Execute(toolCall.name, parsed.val, out)))
    ELSE ToolMessage(anon, ErrorPayload(UnknownToolError(toolCall.name)))

\* handleToolCall: the tool-result message of one tool call; out is what the
\* capability does if it is invoked.
handleToolCall(a, toolCall, out) ==
    LET parsed == JSONParse(toolCall.arguments) IN
    IF ~parsed.ok
    THEN ToolMessage(toolCall, ErrorPayload(ToolFailedError("SyntaxError")))
    ELSE IF toolCall.name \in a.toolMapping
         THEN IF out = "throws" /\ toolCall.name \notin AsyncTools
              THEN ToolMessage(toolCall, ErrorPayload(ToolFailedError("Error")))
              ELSE ToolMessage(toolCall, ResultPayload(toolCall.name, parsed.val,
                                                 Execute(toolCall.name, parsed.val, out)))
    ELSE ToolMessage(toolCall, ErrorPayload(UnknownToolError(toolCall.name)))

\* A mutant of IsCompletion: the loop looks for another tool name.
IsCompletionWrongName(toolCall) == toolCall.name = "task_complete"

\* The test of the loop for the task completion tool.
IsCompletion(toolCall) == toolCall.name = CompletionTool

\* A mutant of DispatchFrom: the loop goes through the whole list and the
\* completion is noticed at its end.
RECURSIVE DispatchWholeBatch(_, _, _, _)
DispatchWholeBatch(a, calls, outs, j) ==
    IF j > Len(calls)
    THEN [a |-> a, completed |-> \E k \in 1..Len(calls) : IsCompletion(calls[k])]
    ELSE LET tc == calls[j]
             b == [a EXCEPT
                     !.messages = Append(@, handleToolCall(a, tc, outs[j])),
                     !.executed = IF Invokes(a, tc)
                                  THEN Append(@, [at |-> Len(a.messages) + 1,
                                                  name |-> tc.name, out |-> outs[j]])
                                  ELSE @]
         IN  DispatchWholeBatch(b, calls, outs, j + 1)

\* A mutant of DispatchFrom: the loop ends at a completion call only if the
\* capability was invoked for it.
RECURSIVE DispatchFromInvokedOnly(_, _, _, _)
DispatchFromInvokedOnly(a, calls, outs, j) ==
    IF j > Len(calls) THEN [a |-> a, completed |-> FALSE]
    ELSE LET tc == calls[j]
             b == [a EXCEPT
                     !.messages = Append(@, handleToolCall(a, tc, outs[j])),
                     !.executed = IF Invokes(a, tc)
                                  THEN Append(@, [at |-> Len(a.messages) + 1,
                                                  name |-> tc.name, out |-> outs[j]])
                                  ELSE @]
         IN  IF IsCompletion(tc) /\ Invokes(a, tc) THEN [a |-> b, completed |-> TRUE]
             ELSE DispatchFromInvokedOnly(b, calls, outs, j + 1)

\* The for loop over assistantMessage.tool_calls, from call j on: each call is
\* handled and its result pushed; the loop ends at a completion call.
RECURSIVE DispatchFrom(_, _, _, _)
DispatchFrom(a, calls, outs, j) ==
    IF j > Len(calls) THEN [a |-> a, completed |-> FALSE]
    ELSE LET tc == calls[j]
             b == [a EXCEPT
                     !.messages = Append(@, handleToolCall(a, tc, outs[j])),
                     !.executed = IF Invokes(a, tc)
                                  THEN Append(@, [at |-> Len(a.messages) + 1,
                                                  name |-> tc.name, out |-> outs[j]])
                                  ELSE @]
         IN  IF IsCompletion(tc) THEN [a |-> b, completed |-> TRUE]
             ELSE DispatchFrom(b, calls, outs, j + 1)

\* A mutant of ExhaustedResult: the placeholder message is forgotten.
ExhaustedResultNoPlaceholder(full) == Join(full)

\* The text run returns when the loop ends by exhaustion.
ExhaustedResult(full) ==
    IF Len(full) > 0 THEN Join(full) ELSE MaxIterationsMessage

\* A mutant of LoopHead: the loop condition is off by one.
LoopHeadOffByOne(a) ==
    IF a.iteration <= config.max_iterations
    THEN [a EXCEPT !.iteration = @ + 1, !.createCalls = @ + 1, !.st = "awaitLLM"]
    ELSE [a EXCEPT !.st = "returned", !.result = ExhaustedResult(a.fullResponseContent)]

\* The head of the while loop: another iteration calls the model, or the
\* iteration budget is exhausted and run returns.
LoopHead(a) ==
    IF a.iteration < config.max_iterations
    THEN [a EXCEPT !.iteration = @ + 1, !.createCalls = @ + 1, !.st = "awaitLLM"]
    ELSE [a EXCEPT !.st = "returned", !.result = ExhaustedResult(a.fullResponseContent)]

\* A mutant of RunStart: the conversation is a field of the agent, and a run
\* goes on from the one of the run before.
RunStartKeepsConversation(a, userInput) ==
    LoopHead([a EXCEPT !.messages = @ \o <<SystemMessage, UserMessage(userInput)>>,
                       !.fullResponseContent = <<>>,
                       !.iteration = 0,
                       !.result = EmptyText, !.error = EmptyText])

\* run(userInput) up to its first await.
RunStart(a, userInput) ==
    LoopHead([a EXCEPT !.messages = <<SystemMessage, UserMessage(userInput)>>,
                       !.fullResponseContent = <<>>,
                       !.iteration = 0,
                       !.result = EmptyText, !.error = EmptyText])

\* The assistant content is captured when it is truthy.
Capture(full, content) ==
    IF content # EmptyText THEN Append(full, content) ELSE full

\* A mutant of OnReply: completion returns the last turn's text only.
OnReplyLastTurn(a, reply, outs) ==
    LET b == [a EXCEPT !.messages = Append(@, AssistantMessage(reply)),
                       !.fullResponseContent = Capture(@, reply.content)]
        d == DispatchFrom(b, reply.tool_calls, outs, 1)
    IN  IF d.completed
        THEN [d.a EXCEPT !.st = "returned", !.result = reply.content]
        ELSE LoopHead(d.a)

\* run from the resolution of callLLM to its next await or its return.
OnReply(a, reply, outs) ==
    LET b == [a EXCEPT !.messages = Append(@, AssistantMessage(reply)),
                       !.fullResponseContent = Capture(@, reply.content)]
        d == DispatchFrom(b, reply.tool_calls, outs, 1)
    IN  IF d.completed
        THEN [d.a EXCEPT !.st = "returned", !.result = Join(d.a.fullResponseContent)]
        ELSE LoopHead(d.a)

\* A mutant of OnFailure: the failed model call is retried once before the
\* run rejects.
OnFailureRetry(a, cause) ==
    [a EXCEPT !.st = "rejected", !.error = LLMFailedError(cause), !.createCalls = @ + 1]

\* callLLM's catch: the failure is wrapped and run rejects.
OnFailure(a, cause) ==
    [a EXCEPT !.st = "rejected", !.error = LLMFailedError(cause)]

\* ------------------------------------------------- the language model
ValidArgs == <<"{", "}">>
MalformedArgs == <<"{">>

ToolCall(id, name, arguments) == [id |-> id, name |-> name, arguments |-> arguments]

\* The tool-call lists a reply of the single-agent run may carry.
Batches ==
    { <<>>,
      <<ToolCall("call_1", "calculate", ValidArgs)>>,
      <<ToolCall("call_1", "calculate", MalformedArgs)>>,
      <<ToolCall("call_1", "unknown_tool", ValidArgs)>>,
      <<ToolCall("call_1", CompletionTool, ValidArgs)>>,
      <<ToolCall("call_1", "unknown_tool", ValidArgs),
        ToolCall("call_2", "calculate", ValidArgs)>>,
      <<ToolCall("call_1", "calculate", ValidArgs),
        ToolCall("call_2", CompletionTool, ValidArgs),
        ToolCall("call_3", "calculate", ValidArgs)>>,
      <<ToolCall("call_1", CompletionTool, MalformedArgs),
        ToolCall("call_2", "calculate", ValidArgs)>> }

Contents == {EmptyText, <<"a">>, <<"b">>}

Replies == [content : Contents, tool_calls : Batches]

Causes == {"Error: API Error"}

UserInputs == {<<"t">>}

\* Whether the dispatch loop gets to call j of the list.
Reached(calls, j) == \A i \in 1..(j - 1) : ~IsCompletion(calls[i])

\* The capability outcomes that matter: only an invoked capability can throw.
OutcomesFor(a, calls) ==
    { outs \in [1..Len(calls) -> Outcomes] :
        \A j \in 1..Len(calls) :
            outs[j] = "throws" => Reached(calls, j) /\ Invokes(a, calls[j]) }


\* ---------------------------------------------------------- orchestrator
\* The prompt templates of the configuration, placeholders as elements.
QuestionGenerationPrompt == <<"Generate ", "{num_agents}", " questions for: ", "{user_input}">>
SynthesisPrompt == <<"Synthesize ", "{num_responses}", " responses: ", "{agent_responses}">>

\* The index of the first occurrence of the pattern in s, or 0.
RECURSIVE IndexOf(_, _, _)
IndexOf(s, pattern, i) ==
    IF i > Len(s) THEN 0
    ELSE IF s[i] = pattern THEN i
    ELSE IndexOf(s, pattern, i + 1)

\* GetSubstitution for a string pattern: in the replacement text $$ is a
\* dollar sign, $& the matched text, $` the text before the match and $' the
\* text after it; any other dollar sign stands for itself.
RECURSIVE GetSubstitution(_, _, _, _)
GetSubstitution(text, matched, before, after) ==
    IF Len(text) = 0 THEN <<>>
    ELSE IF text[1] = "$" /\ Len(text) >= 2 /\ text[2] \in {"$", "&", "`", "'"}
         THEN (CASE text[2] = "$" -> <<"$">>
                 [] text[2] = "&" -> matched
                 [] text[2] = "`" -> before
                 [] text[2] = "'" -> after)
              \o GetSubstitution(SubSeq(text, 3, Len(text)), matched, before, after)
    ELSE <<text[1]>> \o GetSubstitution(Tail(text), matched, before, after)

\* String.prototype.replace(pattern, text) with a string pattern: the first
\* occurrence is replaced by the substitution of the replacement text.
Replace(s, pattern, text) ==
    LET i == IndexOf(s, pattern, 1) IN
    IF i = 0 THEN s
    ELSE LET before == SubSeq(s, 1, i - 1)
             after == SubSeq(s, i + 1, Len(s))
         IN  before \o GetSubstitution(text, <<pattern>>, before, after) \o after

Min(a, b) == IF a < b THEN a ELSE b

\* Array.prototype.slice(0, n) for n >= 0.
Slice0(arr, n) == SubSeq(arr, 1, Min(n, Len(arr)))

FallbackTemplates(userInput) ==
    << <<"Research comprehensive information about: ">> \o userInput,
       <<"Analyze and provide insights about: ">> \o userInput,
       <<"Find alternative perspectives on: ">> \o userInput,
       <<"Verify and cross-check facts about: ">> \o userInput >>

\* The catch of decomposeTask: the first numAgents of the four templates.
Fallback(userInput, numAgents) ==
    JArr([i \in 1..Len(Slice0(FallbackTemplates(userInput), numAgents)) |->
            JStr(Slice0(FallbackTemplates(userInput), numAgents)[i])])

\* questions.length of a parsed value: the number of elements of an array, the
\* number of characters of a string; an object of this alphabet has no numeric
\* length.
HasLength(val, n) == val.t \in {"arr", "str"} /\ Len(val.v) = n

\* decomposeTask after questionAgent.run has settled: the parsed response when
\* its length is numAgents, the fallback when run rejected, JSON.parse threw or
\* the length differs.
decomposeTask(a, userInput, numAgents) ==
    IF a.st = "rejected" THEN Fallback(userInput, numAgents)
    ELSE LET questions == JSONParse(Trim(a.result)) IN
         IF questions.ok /\ HasLength(questions.val, numAgents)
         THEN questions.val
         ELSE Fallback(userInput, numAgents)

\* The filter of the tool schemas and the delete of the mapping entry.
WithoutCompletionTool(a) ==
    [a EXCEPT !.tools = @ \ {CompletionTool}, !.toolMapping = @ \ {CompletionTool}]

\* decomposeTask up to its await: the question agent is built, loses the
\* completion tool, and is run on the generation prompt.
QuestionAgentStart(userInput, numAgents) ==
    LET prompt == Replace(Replace(QuestionGenerationPrompt, "{user_input}", userInput),
                          "{num_agents}", <<ToString(numAgents)>>)
    IN  RunStart(WithoutCompletionTool(NewAgent), prompt)

StringifyError(e) == <<"Error: ">> \o e

NoResult == [agent_id |-> -1, status |-> "none", response |-> EmptyText, execution_time |-> ""]

\* A mutant of WorkerStart: the registry the question agent was stripped of
\* is the one the sub-agents get.
WorkerStartStripped(subtask) ==
    [agent |-> RunStart(WithoutCompletionTool(NewAgent), subtask), promise |-> "pending",
     value |-> NoResult]

\* runAgentParallel up to its await: a new agent, with the registry of its
\* constructor, runs the subtask.
WorkerStart(subtask) ==
    [agent |-> RunStart(NewAgent, subtask), promise |-> "pending", value |-> NoResult]

\* A mutant of AgentResult: a failed run is recorded as a timeout.
AgentResultTimeout(agentId, a) ==
    IF a.st = "returned"
    THEN [agent_id |-> agentId, status |-> "success", response |-> a.result,
          execution_time |-> "Date.now() - startTime"]
    ELSE [agent_id |-> agentId, status |-> "timeout",
          response |-> <<"Error: ">> \o StringifyError(a.error),
          execution_time |-> "taskTimeout"]

\* runAgentParallel after agent.run has settled: its try's end or its catch.
AgentResult(agentId, a) ==
    IF a.st = "returned"
    THEN [agent_id |-> agentId, status |-> "success", response |-> a.result,
          execution_time |-> "Date.now() - startTime"]
    ELSE [agent_id |-> agentId, status |-> "error",
          response |-> <<"Error: ">> \o StringifyError(a.error),
          execution_time |-> "0"]

\* orchestrate's map of the settled promises to results.
SettledResult(w, i) ==
    IF w.promise = "fulfilled" THEN w.value
    ELSE [agent_id |-> i, status |-> "timeout",
          response |-> <<"Agent ", ToString(i + 1), " timed out or failed: ">>,
          execution_time |-> "taskTimeout"]

\* Insertion of a result into a list sorted by agent_id (after the equal ones:
\* Array.prototype.sort is stable).
RECURSIVE InsertSorted(_, _)
InsertSorted(sorted, r) ==
    IF Len(sorted) = 0 THEN <<r>>
    ELSE IF sorted[Len(sorted)].agent_id <= r.agent_id THEN Append(sorted, r)
    ELSE Append(InsertSorted(SubSeq(sorted, 1, Len(sorted) - 1), r), sorted[Len(sorted)])

\* A mutant of SortByAgentId: the results are put in the order in which the
\* promises settled.
SortBySettleOrder(rs) ==
    IF Len(settled) # Len(rs) THEN rs
    ELSE [k \in 1..Len(rs) |->
            rs[CHOOSE j \in 1..Len(rs) : rs[j].agent_id = settled[k]]]

\* results.sort((a, b) => a.agent_id - b.agent_id)
RECURSIVE SortByAgentId(_)
SortByAgentId(rs) ==
    IF Len(rs) = 0 THEN <<>>
    ELSE InsertSorted(SortByAgentId(SubSeq(rs, 1, Len(rs) - 1)), rs[Len(rs)])

\* A mutant of IsSuccess: every result that is not a timeout counts.
IsSuccessNotTimeout(r) == r.status # "timeout"

\* The filter of aggregateResults.
IsSuccess(r) == r.status = "success"

AllFailedMessage == <<"All agents failed to provide results. Please try again.">>

\* The agent responses section of the synthesis prompt.
RECURSIVE AgentResponsesText(_, _)
AgentResponsesText(responses, i) ==
    IF i > Len(responses) THEN EmptyText
    ELSE <<"=== AGENT ", ToString(i), " RESPONSE ===", NL>> \o responses[i] \o <<NL, NL>>
         \o AgentResponsesText(responses, i + 1)

SynthesisPromptFor(responses) ==
    Replace(Replace(SynthesisPrompt, "{num_responses}", <<ToString(Len(responses))>>),
            "{agent_responses}", AgentResponsesText(responses, 1))

\* A mutant of CombinedLines: the headings of the synthesis prompt are used.
RECURSIVE CombinedLinesPromptHeadings(_, _)
CombinedLinesPromptHeadings(responses, i) ==
    IF i > Len(responses) THEN <<>>
    ELSE << <<"=== AGENT ", ToString(i), " RESPONSE ===">>, responses[i], EmptyText >>
         \o CombinedLinesPromptHeadings(responses, i + 1)

\* The lines of the concatenation fallback of aggregateConsensus.
RECURSIVE CombinedLines(_, _)
CombinedLines(responses, i) ==
    IF i > Len(responses) THEN <<>>
    ELSE << <<"=== Agent ", ToString(i), " Response ===">>, responses[i], EmptyText >>
         \o CombinedLines(responses, i + 1)

\* Array.prototype.join('\n')
RECURSIVE JoinLines(_)
JoinLines(lines) ==
    IF Len(lines) = 0 THEN EmptyText
    ELSE IF Len(lines) = 1 THEN lines[1]
    ELSE lines[1] \o <<NL>> \o JoinLines(Tail(lines))

\* The tool schemas are replaced by an empty list and the mapping is cleared.
WithoutTools(a) == [a EXCEPT !.tools = {}, !.toolMapping = {}]

\* aggregateConsensus up to its await: the synthesis agent is built, loses
\* every tool, and is run on the synthesis prompt.
SynthesisAgentStart(responses) ==
    RunStart(WithoutTools(NewAgent), SynthesisPromptFor(responses))

\* A mutant of Responses: the failed results are not filtered out.
ResponsesUnfiltered(rs) == [i \in 1..Len(rs) |-> rs[i].response]

\* The successful responses, in the order of the results.
Responses(rs) ==
    LET ok == SelectSeq(rs, IsSuccess) IN [i \in 1..Len(ok) |-> ok[i].response]

\* No map has been handed out.
NoSnapshot == [held |-> FALSE, shared |-> FALSE, entries |-> <<>>]

\* A mutant of getProgressStatus: the orchestrator's own map is returned.
getProgressStatusSameMap(progress) == [held |-> TRUE, shared |-> TRUE, entries |-> progress]

\* getProgressStatus: new Map(this.agentProgress), an object of its own with
\* the entries of the progress map.
getProgressStatus(progress) == [held |-> TRUE, shared |-> FALSE, entries |-> progress]

\* The map the observer holds after the orchestrator has written to its
\* progress map: a write is seen through the observer's map exactly when the
\* two are one object.
Seen(snap, progress) == IF snap.shared THEN [snap EXCEPT !.entries = progress] ELSE snap

\* ------------------------------------------------------------ the shell
\* A file that does not exist.
Absent == [exists |-> FALSE, content |-> EmptyText]
File(content) == [exists |-> TRUE, content |-> content]

\* What runTask has returned: nothing yet, a result text, or null.
NotReturned == [kind |-> "none", text |-> EmptyText]

\* new OrchestratorCLI(): nothing runs, no readline interface is open.
NewCLI ==
    [st |-> "constructed", running |-> FALSE, this |-> "none", caller |-> "none",
     pending |-> 0, input |-> EmptyText, task |-> EmptyText, returned |-> NotReturned]

\* The single-agent program before main is called.
NewMainLoop ==
    [st |-> "start", pending |-> 0, input |-> EmptyText, report |-> "none"]

\* A file system write_file has not been called on; call tells one call of
\* execute from the next.
NoDisk ==
    [parent |-> TRUE, target |-> Absent, temp |-> Absent, content |-> EmptyText,
     call |-> 0, calls |-> <<>>, result |-> [kind |-> "none", text |-> EmptyText, bytes |-> 0]]

ShellIdle ==
    /\ cli = NewCLI
    /\ mainLoop = NewMainLoop
    /\ disk = NoDisk

\* The state of an orchestrator on which orchestrate is not running.
OrchIdle ==
    /\ pc = "idle"
    /\ userTask = EmptyText
    /\ questionAgent = NewAgent
    /\ subtasks = JNull
    /\ workers = <<>>
    /\ settled = <<>>
    /\ agentProgress = <<>>
    /\ agentResults = <<>>
    /\ results = <<>>
    /\ synthesisAgent = NewAgent
    /\ synthesisInput = <<>>
    /\ finalResult = EmptyText
    /\ snapshot = NoSnapshot

\* ------------------------------------------------------------- actions
Init ==
    /\ config \in [max_iterations : 1..MaxIterations, parallel_agents : {1}]
    /\ agent = NewAgent
    /\ OrchIdle
    /\ ShellIdle

\* agent.run(userInput) is called.
Run ==
    /\ agent.st = "idle"
    /\ \E userInput \in UserInputs : agent' = RunStart(agent, userInput)
    /\ UNCHANGED <<shell, config, orchVars>>

\* The pending model call resolves with a reply.
LLMResolves ==
    /\ agent.st = "awaitLLM"
    /\ \E reply \in Replies : \E outs \in OutcomesFor(agent, reply.tool_calls) :
          agent' = OnReply(agent, reply, outs)
    /\ UNCHANGED <<shell, config, orchVars>>

\* The pending model call fails.
LLMRejects ==
    /\ agent.st = "awaitLLM"
    /\ \E cause \in Causes : agent' = OnFailure(agent, cause)
    /\ UNCHANGED <<shell, config, orchVars>>

Next == Run \/ LLMResolves \/ LLMRejects

Spec == Init /\ [][Next]_vars

\* --------------------------------------- the orchestration's environment
Letters == <<"a", "b", "c", "d", "e", "f", "g", "h">>

\* The text ["a", "b", ...] of a JSON array of k one-letter strings.
RECURSIVE ArrayItems(_, _)
ArrayItems(i, k) ==
    IF i > k THEN <<>>
    ELSE <<DQ, Letters[i], DQ>> \o (IF i < k THEN <<",", " ">> ELSE <<>>) \o ArrayItems(i + 1, k)
ArrayText(k) == <<"[">> \o ArrayItems(1, k) \o <<"]">>

\* The text "ab..." of a JSON string of k letters.
StringText(k) == <<DQ>> \o [i \in 1..k |-> Letters[i]] \o <<DQ>>

\* What the model may answer to the question agent: the array asked for, an
\* array one short, a string as long as the array asked for, or no text; with
\* or without a tool call named mark_task_complete.
CompletionBatches == { <<>>, <<ToolCall("call_1", CompletionTool, ValidArgs)>> }
QuestionReplies(numAgents) ==
    [content : {ArrayText(numAgents), ArrayText(numAgents - 1), StringText(numAgents), EmptyText},
     tool_calls : CompletionBatches]

\* What the model may answer to sub-agent i, and to the synthesis agent; the
\* text for the fourth sub-agent holds dollar signs.
WorkerContents(i) ==
    IF i = 3 THEN {<<"$", "$", "R">>} ELSE {<<"R", Letters[i + 1]>>}
WorkerReplies(i) == [content : WorkerContents(i), tool_calls : CompletionBatches]
SynthesisReplies == [content : {<<"S">>}, tool_calls : CompletionBatches]

UserTasks == {<<"t">>}

\* The configurations of an orchestration.
OrchConfigs ==
    { c \in [max_iterations : 1..MaxOrchIterations, parallel_agents : 1..MaxAgents] :
        (c.max_iterations - 1) * c.parallel_agents <= MaxExtraCalls }

NumAgents == config.parallel_agents

\* ------------------------------------------------ orchestrator actions
OrchInit ==
    /\ config \in OrchConfigs
    /\ agent = NewAgent
    /\ OrchIdle
    /\ ShellIdle

\* orchestrate(userInput) is called, for the first time or after an earlier
\* call has settled: the progress maps are cleared, the locals of the earlier
\* call are gone, and decomposeTask runs to its await.
orchestrate(userInput) ==
    /\ pc \in {"idle", "returned", "rejected"}
    /\ userTask' = userInput
    /\ questionAgent' = QuestionAgentStart(userInput, NumAgents)
    /\ agentProgress' = <<>>
    /\ agentResults' = <<>>
    /\ pc' = "decompose"
    /\ subtasks' = JNull
    /\ workers' = <<>>
    /\ settled' = <<>>
    /\ results' = <<>>
    /\ synthesisInput' = <<>>
    /\ finalResult' = EmptyText
    /\ UNCHANGED <<config, agent, synthesisAgent>>
    /\ snapshot' = Seen(snapshot, agentProgress')

\* A caller other than the command-line program calls orchestrate.
Orchestrate == (\E userInput \in UserTasks : orchestrate(userInput)) /\ UNCHANGED shell

\* A model call of the question agent resolves.
QuestionLLMResolves ==
    /\ pc = "decompose" /\ questionAgent.st = "awaitLLM"
    /\ \E reply \in QuestionReplies(NumAgents) :
       \E outs \in OutcomesFor(questionAgent, reply.tool_calls) :
          questionAgent' = OnReply(questionAgent, reply, outs)
    /\ UNCHANGED <<shell, config, agent, snapshot,
                   pc, userTask, subtasks, workers, settled, agentProgress,
                   agentResults, results, synthesisAgent, synthesisInput, finalResult>>

\* A model call of the question agent fails.
QuestionLLMRejects ==
    /\ pc = "decompose" /\ questionAgent.st = "awaitLLM"
    /\ \E cause \in Causes : questionAgent' = OnFailure(questionAgent, cause)
    /\ UNCHANGED <<shell, config, agent, snapshot,
                   pc, userTask, subtasks, workers, settled, agentProgress,
                   agentResults, results, synthesisAgent, synthesisInput, finalResult>>

\* decomposeTask resumes after questionAgent.run and returns.
DecomposeReturns ==
    /\ pc = "decompose" /\ questionAgent.st \in {"returned", "rejected"}
    /\ subtasks' = decomposeTask(questionAgent, userTask, NumAgents)
    /\ pc' = "dispatch"
    /\ UNCHANGED <<shell, config, agent, snapshot, userTask, questionAgent, workers, settled,
                   agentProgress,
                   agentResults, results, synthesisAgent, synthesisInput, finalResult>>

\* A mutant of DispatchProgress: runAgentParallel does not update the entry.
DispatchProgressQueuedOnly(numAgents, k) ==
    [i \in (0..(numAgents - 1)) \cup (0..(k - 1)) |-> "QUEUED"]

\* A mutant of DispatchProgress: the last call of runAgentParallel has not
\* come to its update when orchestrate is suspended.
DispatchProgressLastQueued(numAgents, k) ==
    [i \in (0..(numAgents - 1)) \cup (0..(k - 1)) |->
        IF i < k - 1 THEN "PROCESSING..." ELSE "QUEUED"]

\* A mutant of DispatchProgress: only the dispatched indices are set.
DispatchProgressDispatchedOnly(numAgents, k) == [i \in 0..(k - 1) |-> "PROCESSING..."]

\* The progress map after the QUEUED loop over 0..numAgents-1 and the
\* PROCESSING update of each of the k calls of runAgentParallel.
DispatchProgress(numAgents, k) ==
    [i \in (0..(numAgents - 1)) \cup (0..(k - 1)) |->
        IF i < k THEN "PROCESSING..." ELSE "QUEUED"]

\* orchestrate resumes after decomposeTask: every index is QUEUED, then
\* subtasks.map calls runAgentParallel for each sub-task, each to its await.
\* A value without map (a string) makes orchestrate reject.  The question
\* agent, a local of decomposeTask, is gone.
Dispatch ==
    /\ pc = "dispatch"
    /\ questionAgent' = NewAgent
    /\ IF subtasks.t = "arr"
       THEN /\ workers' = [i \in 0..(Len(subtasks.v) - 1) |-> WorkerStart(subtasks.v[i + 1].v)]
            /\ agentProgress' = DispatchProgress(NumAgents, Len(subtasks.v))
            /\ pc' = "collect"
       ELSE /\ workers' = workers
            /\ agentProgress' = DispatchProgress(NumAgents, 0)
            /\ pc' = "rejected"
    /\ UNCHANGED <<shell, config, agent, userTask, subtasks, settled, agentResults,
                   results, synthesisAgent, synthesisInput, finalResult>>
    /\ snapshot' = Seen(snapshot, agentProgress')

\* A model call of sub-agent i resolves.
WorkerLLMResolves(i) ==
    /\ pc = "collect" /\ workers[i].agent.st = "awaitLLM"
    /\ \E reply \in WorkerReplies(i) :
       \E outs \in OutcomesFor(workers[i].agent, reply.tool_calls) :
          workers' = [workers EXCEPT ![i].agent = OnReply(@, reply, outs)]
    /\ UNCHANGED <<shell, config, agent, snapshot, pc, userTask, questionAgent, subtasks, settled,
                   agentProgress, agentResults, results, synthesisAgent, synthesisInput,
                   finalResult>>

\* A model call of sub-agent i fails.
WorkerLLMRejects(i) ==
    /\ pc = "collect" /\ workers[i].agent.st = "awaitLLM"
    /\ \E cause \in Causes :
          workers' = [workers EXCEPT ![i].agent = OnFailure(@, cause)]
    /\ UNCHANGED <<shell, config, agent, snapshot, pc, userTask, questionAgent, subtasks, settled,
                   agentProgress, agentResults, results, synthesisAgent, synthesisInput,
                   finalResult>>

\* updateAgentProgress(agentId, status, result)
\* A mutant of updateAgentProgress: every agent writes the first key.
updateAgentProgressFirstKey(progress, agentId, status) ==
    [i \in DOMAIN progress \cup {0} |-> IF i = 0 THEN status ELSE progress[i]]

\* updateAgentProgress and the set of the stored-results map: Map.set(agentId, ...).
updateAgentProgress(progress, agentId, status) ==
    [i \in DOMAIN progress \cup {agentId} |-> IF i = agentId THEN status ELSE progress[i]]

\* A mutant of ProgressAfterRun: the catch records a terminal status.
ProgressAfterRunFailed(progress, agentId, a) ==
    IF a.st = "returned" THEN updateAgentProgress(progress, agentId, "COMPLETED")
    ELSE updateAgentProgress(progress, agentId, "FAILED: error")

\* The progress map after agent.run has settled: COMPLETED at the end of the
\* try; the catch of runAgentParallel leaves the map alone.
ProgressAfterRun(progress, agentId, a) ==
    IF a.st = "returned" THEN updateAgentProgress(progress, agentId, "COMPLETED")
    ELSE progress

\* A mutant of runAgentParallelReturns: the catch throws the error again.
runAgentParallelRethrows(i) ==
    /\ pc = "collect" /\ workers[i].promise = "pending"
    /\ workers[i].agent.st \in {"returned", "rejected"}
    /\ workers' = [workers EXCEPT ![i].promise = IF workers[i].agent.st = "returned"
                                                 THEN "fulfilled" ELSE "rejected",
                                  ![i].value = IF workers[i].agent.st = "returned"
                                               THEN AgentResult(i, workers[i].agent)
                                               ELSE NoResult,
                                  ![i].agent = NewAgent]
    /\ agentProgress' = ProgressAfterRun(agentProgress, i, workers[i].agent)
    /\ agentResults' = IF workers[i].agent.st = "returned"
                       THEN updateAgentProgress(agentResults, i, workers[i].agent.result)
                       ELSE agentResults
    /\ UNCHANGED <<shell, config, agent, pc, userTask, questionAgent, subtasks, results,
                   synthesisAgent, synthesisInput, finalResult>>
    /\ snapshot' = Seen(snapshot, agentProgress')

\* runAgentParallel(i, subtask) resumes after agent.run and returns its result.
runAgentParallelReturns(i) ==
    /\ pc = "collect" /\ workers[i].promise = "pending"
    /\ workers[i].agent.st \in {"returned", "rejected"}
    /\ workers' = [workers EXCEPT ![i].promise = "fulfilled",
                                  ![i].value = AgentResult(i, workers[i].agent),
                                  ![i].agent = NewAgent]
    /\ agentProgress' = ProgressAfterRun(agentProgress, i, workers[i].agent)
    /\ agentResults' = IF workers[i].agent.st = "returned"
                       THEN updateAgentProgress(agentResults, i, workers[i].agent.result)
                       ELSE agentResults
    /\ UNCHANGED <<shell, config, agent, pc, userTask, questionAgent, subtasks, results,
                   synthesisAgent, synthesisInput, finalResult>>
    /\ snapshot' = Seen(snapshot, agentProgress')

\* The promise of runAgentParallel(i, subtask) settles.
WorkerSettles(i) == runAgentParallelReturns(i) /\ UNCHANGED settled

\* A mutant of AllSettled: the wait ends with the first promise to settle.
AnySettled(ws) == \E i \in DOMAIN ws : ws[i].promise # "pending"

\* Promise.allSettled(agentPromises) resolves when no promise is pending.
\* A mutant of AllSettled: the wait ends when a timer fires, settled or not.
SettledOrTimedOut(ws) == TRUE

\* Promise.allSettled: no promise of the list is pending.
AllSettled(ws) == \A i \in DOMAIN ws : ws[i].promise # "pending"

\* orchestrate resumes after Promise.allSettled: the results are mapped and
\* sorted, and aggregateResults runs to its return or to the await of
\* aggregateConsensus.
Collect ==
    /\ pc = "collect"
    /\ AllSettled(workers)
    /\ LET rs == SortByAgentId([j \in 1..Cardinality(DOMAIN workers) |->
                                  SettledResult(workers[j - 1], j - 1)])
           responses == Responses(rs)
       IN  /\ results' = rs
           /\ IF Len(responses) = 0
              THEN /\ finalResult' = AllFailedMessage
                   /\ pc' = "returned"
                   /\ UNCHANGED <<synthesisAgent, synthesisInput>>
              ELSE IF Len(responses) = 1
              THEN /\ finalResult' = responses[1]
                   /\ pc' = "returned"
                   /\ UNCHANGED <<synthesisAgent, synthesisInput>>
              ELSE /\ synthesisAgent' = SynthesisAgentStart(responses)
                   /\ synthesisInput' = responses
                   /\ pc' = "synthesis"
                   /\ UNCHANGED finalResult
    /\ UNCHANGED <<shell, config, agent, snapshot,
                   userTask, questionAgent, subtasks, workers, settled,
                   agentProgress, agentResults>>

\* A model call of the synthesis agent resolves.
SynthesisLLMResolves ==
    /\ pc = "synthesis" /\ synthesisAgent.st = "awaitLLM"
    /\ \E reply \in SynthesisReplies :
       \E outs \in OutcomesFor(synthesisAgent, reply.tool_calls) :
          synthesisAgent' = OnReply(synthesisAgent, reply, outs)
    /\ UNCHANGED <<shell, config, agent, snapshot,
                   pc, userTask, questionAgent, subtasks, workers, settled,
                   agentProgress, agentResults, results, synthesisInput, finalResult>>

\* A model call of the synthesis agent fails.
SynthesisLLMRejects ==
    /\ pc = "synthesis" /\ synthesisAgent.st = "awaitLLM"
    /\ \E cause \in Causes : synthesisAgent' = OnFailure(synthesisAgent, cause)
    /\ UNCHANGED <<shell, config, agent, snapshot,
                   pc, userTask, questionAgent, subtasks, workers, settled,
                   agentProgress, agentResults, results, synthesisInput, finalResult>>

\* aggregateConsensus after synthesisAgent.run has settled: the final answer,
\* or the concatenation of its catch.
aggregateConsensus(a, responses) ==
    IF a.st = "returned" THEN a.result
    ELSE JoinLines(CombinedLines(responses, 1))

\* aggregateConsensus resumes after synthesisAgent.run; orchestrate returns.
SynthesisSettles ==
    /\ pc = "synthesis" /\ synthesisAgent.st \in {"returned", "rejected"}
    /\ finalResult' = aggregateConsensus(synthesisAgent, synthesisInput)
    /\ synthesisAgent' = NewAgent
    /\ pc' = "returned"
    /\ UNCHANGED <<shell, config, agent, snapshot,
                   userTask, questionAgent, subtasks, workers, settled,
                   agentProgress, agentResults, results, synthesisInput>>

OrchNext ==
    \/ Orchestrate
    \/ QuestionLLMResolves
    \/ QuestionLLMRejects
    \/ DecomposeReturns
    \/ Dispatch
    \/ \E i \in DOMAIN workers : WorkerLLMResolves(i)
    \/ \E i \in DOMAIN workers : WorkerLLMRejects(i)
    \/ \E i \in DOMAIN workers : WorkerSettles(i)
    \/ Collect
    \/ SynthesisLLMResolves
    \/ SynthesisLLMRejects
    \/ SynthesisSettles

OrchSpec == OrchInit /\ [][OrchNext]_vars

\* ------------------------------------ orchestration with the settle order
\* Largest orchestrator.parallel_agents of an orchestration whose settle order
\* is recorded.
MaxOrderedAgents == 3

OrderInit ==
    /\ config \in {c \in OrchConfigs : c.parallel_agents <= MaxOrderedAgents}
    /\ agent = NewAgent
    /\ OrchIdle
    /\ ShellIdle

\* The promise of runAgentParallel(i, subtask) settles, and the order of the
\* settlements is recorded.
WorkerSettlesInOrder(i) == runAgentParallelReturns(i) /\ settled' = Append(settled, i)

OrderNext ==
    \/ Orchestrate
    \/ QuestionLLMResolves
    \/ QuestionLLMRejects
    \/ DecomposeReturns
    \/ Dispatch
    \/ \E i \in DOMAIN workers : WorkerLLMResolves(i)
    \/ \E i \in DOMAIN workers : WorkerLLMRejects(i)
    \/ \E i \in DOMAIN workers : WorkerSettlesInOrder(i)
    \/ Collect
    \/ SynthesisLLMResolves
    \/ SynthesisLLMRejects
    \/ SynthesisSettles

OrderSpec == OrderInit /\ [][OrderNext]_vars

\* ------------------------------------------ orchestration with an observer
\* Largest orchestrator.parallel_agents of an orchestration that is observed.
MaxObservedAgents == 2

\* The value an observer writes into the map it was given.
ObserverStatus == "OBSERVER"

ObservedInit ==
    /\ config \in {c \in OrchConfigs : c.parallel_agents <= MaxObservedAgents}
    /\ agent = NewAgent
    /\ OrchIdle
    /\ ShellIdle

\* An observer calls getProgressStatus, at any point between the steps of the
\* orchestration, and keeps the map it gets.
GetProgressStatus ==
    /\ ~snapshot.held
    /\ snapshot' = getProgressStatus(agentProgress)
    /\ UNCHANGED <<shell, config, agent, pc, userTask, questionAgent, subtasks, workers, settled,
                   agentProgress, agentResults, results, synthesisAgent, synthesisInput,
                   finalResult>>

\* The observer sets an entry of the map it holds; the orchestrator's map
\* changes with it exactly when the two are one object.
ObserverSets(k) ==
    /\ snapshot.held
    /\ snapshot' = [snapshot EXCEPT !.entries = updateAgentProgress(@, k, ObserverStatus)]
    /\ agentProgress' = IF snapshot.shared THEN snapshot'.entries ELSE agentProgress
    /\ UNCHANGED <<shell, config, agent, pc, userTask, questionAgent, subtasks, workers, settled,
                   agentResults, results, synthesisAgent, synthesisInput, finalResult>>

ObservedNext ==
    \/ Orchestrate
    \/ QuestionLLMResolves
    \/ QuestionLLMRejects
    \/ DecomposeReturns
    \/ Dispatch
    \/ \E i \in DOMAIN workers : WorkerLLMResolves(i)
    \/ \E i \in DOMAIN workers : WorkerLLMRejects(i)
    \/ \E i \in DOMAIN workers : WorkerSettles(i)
    \/ Collect
    \/ SynthesisLLMResolves
    \/ SynthesisLLMRejects
    \/ SynthesisSettles
    \/ GetProgressStatus
    \/ \E k \in 0..(NumAgents - 1) : ObserverSets(k)

ObservedSpec == ObservedInit /\ [][ObservedNext]_vars

\* ------------------------------------------------- claims on Agent.run
RECURSIVE Concat(_)
Concat(parts) == IF Len(parts) = 0 THEN <<>> ELSE parts[1] \o Concat(Tail(parts))

\* The texts, in order, with a blank line between consecutive ones.
BlankLineJoined(texts) ==
    Concat([i \in 1..(2 * Len(texts) - 1) |->
              IF i % 2 = 1 THEN texts[(i + 1) \div 2] ELSE <<NL, NL>>])

IsAssistant(m) == m.role = "assistant"
NonEmpty(t) == t # EmptyText
HasCompletionCall(m) == \E j \in 1..Len(m.tool_calls) : m.tool_calls[j].name = CompletionTool

\* The replies the model has given in this run, in order.
Turns(a) == SelectSeq(a.messages, IsAssistant)
TurnTexts(a) == [i \in 1..Len(Turns(a)) |-> Turns(a)[i].content]
SomeCompletion(a) == \E i \in 1..Len(Turns(a)) : HasCompletionCall(Turns(a)[i])
NeverToolCalls(a) ==
    \A i \in 1..Len(Turns(a)) :
        Turns(a)[i].tool_calls = <<>> /\ Turns(a)[i].content # EmptyText

\* C1: with a model that never issues tool calls and always replies with a
\* non-empty text, a run that has returned has made exactly max_iterations
\* model calls and returns all the texts, in order, joined by blank lines; and
\* such a run does not return before.
C1_NoToolCallsRunsAllIterations ==
    (agent.st = "returned" /\ NeverToolCalls(agent)) =>
        /\ agent.createCalls = config.max_iterations
        /\ Len(Turns(agent)) = config.max_iterations
        /\ agent.result = BlankLineJoined(TurnTexts(agent))

C1_Witness ==
    /\ agent.st = "returned" /\ NeverToolCalls(agent)
    /\ config.max_iterations = 3
    /\ TurnTexts(agent) = << <<"a">>, <<"b">>, <<"a">> >>

\* C2: once the first reply of the model carries a tool call named
\* mark_task_complete, the run has returned that reply's text after exactly
\* one model call.
C2_FirstReplyCompletes ==
    (Len(Turns(agent)) >= 1 /\ HasCompletionCall(Turns(agent)[1])) =>
        /\ agent.st = "returned"
        /\ agent.createCalls = 1
        /\ Len(Turns(agent)) = 1
        /\ agent.result = Turns(agent)[1].content

C2_Witness ==
    /\ Len(Turns(agent)) = 1 /\ HasCompletionCall(Turns(agent)[1])
    /\ Len(Turns(agent)[1].tool_calls) = 3
    /\ agent.result = <<"a">>
    /\ config.max_iterations = 3

\* C3: when the completion signal arrives at iteration k, the run returns the
\* non-empty texts of iterations 1..k, in order, joined by blank lines: a text,
\* made of the replies' texts alone, and all of them.
C3_CompletionReturnsFullLog ==
    (agent.st = "returned" /\ SomeCompletion(agent)) =>
        /\ agent.iteration = Len(Turns(agent))
        /\ HasCompletionCall(Turns(agent)[agent.iteration])
        /\ agent.result = BlankLineJoined(SelectSeq(TurnTexts(agent), NonEmpty))

C3_Witness ==
    /\ agent.st = "returned" /\ SomeCompletion(agent)
    /\ agent.iteration = 3
    /\ TurnTexts(agent) = << <<"a">>, EmptyText, <<"b">> >>

\* C4: when max_iterations model calls have completed and no reply carried a
\* tool call named mark_task_complete, the run has returned (it has not
\* rejected): the accumulated log if some reply had a non-empty text, the fixed
\* message otherwise.
C4_ExhaustionReturns ==
    (Len(Turns(agent)) = config.max_iterations /\ ~SomeCompletion(agent)) =>
        /\ agent.st = "returned"
        /\ agent.createCalls = config.max_iterations
        /\ agent.result =
             IF \E i \in 1..Len(Turns(agent)) : NonEmpty(TurnTexts(agent)[i])
             THEN BlankLineJoined(SelectSeq(TurnTexts(agent), NonEmpty))
             ELSE MaxIterationsMessage

C4_Witness ==
    /\ Len(Turns(agent)) = config.max_iterations /\ ~SomeCompletion(agent)
    /\ config.max_iterations = 2
    /\ agent.result = MaxIterationsMessage
    /\ agent.executed # <<>>

\* The positions of the replies in the conversation, and the tool calls of the
\* reply at p.
TurnStarts(a) == {p \in 1..Len(a.messages) : IsAssistant(a.messages[p])}
CallsAt(a, p) == a.messages[p].tool_calls
IsLastTurn(a, p) == \A q \in TurnStarts(a) : q <= p

\* Call j of the reply at p failed: unknown name, malformed arguments, or a
\* capability that raised.
Raised(a, p, j) == \E e \in 1..Len(a.executed) :
                      a.executed[e].at = p + j /\ a.executed[e].out = "throws"
Failed(a, p, j) ==
    \/ CallsAt(a, p)[j].name \notin a.toolMapping
    \/ ~JSONParse(CallsAt(a, p)[j].arguments).ok
    \/ Raised(a, p, j)

\* Call j of the reply at p has been answered by the error message of its
\* failure, under its own tool_call_id.
AnsweredWithError(a, p, j) ==
    /\ p + j <= Len(a.messages)
    /\ a.messages[p + j].role = "tool"
    /\ a.messages[p + j].tool_call_id = CallsAt(a, p)[j].id
    /\ a.messages[p + j].payload.kind = "error"
    /\ a.messages[p + j].payload.text \in
          {UnknownToolError(CallsAt(a, p)[j].name),
           ToolFailedError("SyntaxError"), ToolFailedError("Error")}

Answered(a, p, j) ==
    /\ p + j <= Len(a.messages)
    /\ a.messages[p + j].role = "tool"
    /\ a.messages[p + j].tool_call_id = CallsAt(a, p)[j].id

\* The run did not stop at the reply at p: another model call followed, or the
\* iteration budget was exhausted.
WentOn(a, p) ==
    IsLastTurn(a, p) =>
        \/ a.st \in {"awaitLLM", "rejected"} /\ a.createCalls = Len(Turns(a)) + 1
        \/ a.st = "returned" /\ a.iteration = config.max_iterations

\* A rejection comes from a model call only: the call that failed had not
\* been answered.
RejectedByModelCallOnly(a) ==
    a.st = "rejected" =>
        /\ a.createCalls = Len(Turns(a)) + 1
        /\ \E cause \in Causes : a.error = LLMFailedError(cause)

\* C5 as stated: after any failed tool call the error message is appended and
\* the run goes on to the remaining tool calls of the batch and to the next
\* iteration, without rejecting.
C5_Original ==
    /\ RejectedByModelCallOnly(agent)
    /\ \A p \in TurnStarts(agent) : \A j \in 1..Len(CallsAt(agent, p)) :
          (Reached(CallsAt(agent, p), j) /\ Failed(agent, p, j)) =>
              /\ AnsweredWithError(agent, p, j)
              /\ \A k \in (j + 1)..Len(CallsAt(agent, p)) : Answered(agent, p, k)
              /\ WentOn(agent, p)

\* C5, amended: a failed tool call is answered by its error message and never
\* makes the run reject; the run carries on as after a successful call: to the
\* following calls of the batch up to the first one named mark_task_complete,
\* which ends the run by a normal return, and otherwise to the next iteration.
C5_ToolFailureNeverAborts ==
    /\ RejectedByModelCallOnly(agent)
    /\ \A p \in TurnStarts(agent) : \A j \in 1..Len(CallsAt(agent, p)) :
          (Reached(CallsAt(agent, p), j) /\ Failed(agent, p, j)) =>
              /\ AnsweredWithError(agent, p, j)
              /\ \A k \in (j + 1)..Len(CallsAt(agent, p)) :
                    IF Reached(CallsAt(agent, p), k)
                    THEN Answered(agent, p, k)
                    ELSE p + k > Len(agent.messages)
              /\ IF HasCompletionCall(agent.messages[p])
                 THEN agent.st = "returned" /\ IsLastTurn(agent, p)
                 ELSE WentOn(agent, p)

C5_Witness ==
    /\ agent.st = "returned" /\ ~SomeCompletion(agent)
    /\ \E p \in TurnStarts(agent) :
          /\ Len(CallsAt(agent, p)) = 2
          /\ Failed(agent, p, 1) /\ AnsweredWithError(agent, p, 1)
          /\ Answered(agent, p, 2) /\ agent.messages[p + 2].payload.kind = "result"
    /\ \E p \in TurnStarts(agent) : Raised(agent, p, 1)
    /\ \E p \in TurnStarts(agent) :
          /\ Len(CallsAt(agent, p)) = 1
          /\ ~JSONParse(CallsAt(agent, p)[1].arguments).ok

\* C6: a run rejects only at a model call that failed, with the error that
\* wraps the cause; the failed call is the last one (calls = k at iteration k,
\* of which k - 1 were answered), and nothing of the run changes afterwards.
C6_ModelFailureRejects ==
    [][agent'.st = "rejected" =>
          /\ \E cause \in Causes : agent'.error = LLMFailedError(cause)
          /\ agent'.createCalls = agent'.iteration
          /\ Len(Turns(agent')) = agent'.iteration - 1
          /\ agent.st = "awaitLLM" =>
                /\ agent'.createCalls = agent.createCalls
                /\ agent'.executed = agent.executed
                /\ agent'.messages = agent.messages
          /\ agent.st = "rejected" => agent' = agent]_vars

C6_Witness ==
    /\ agent.st = "rejected"
    /\ agent.iteration = 2
    /\ agent.executed # <<>>

\* ------------------------------------------- claims on the orchestrator
Collected == pc \in {"synthesis", "returned"}
Dispatched == pc \in {"collect", "synthesis", "returned"}

\* C7: the Agent Results of one orchestrate call have distinct indices that
\* cover exactly 0..N-1, whatever decomposition returned.
C7_ResultsCoverAllIndices ==
    Collected =>
        /\ Len(results) = NumAgents
        /\ {results[k].agent_id : k \in 1..Len(results)} = 0..(NumAgents - 1)

\* C8: an orchestrate call that dispatches has called runAgentParallel exactly
\* once for each index 0..N-1, also when decomposition fell back.
C8_AllConfiguredAgentsStart ==
    Dispatched => DOMAIN workers = 0..(NumAgents - 1)

\* The fallback set as the claim gives it: the first N of the four templates
\* applied to the task.
C9_FallbackSet(task, n) ==
    LET heads == <<"Research comprehensive information about: ",
                   "Analyze and provide insights about: ",
                   "Find alternative perspectives on: ",
                   "Verify and cross-check facts about: ">>
    IN  [i \in 1..(IF n < 4 THEN n ELSE 4) |-> JStr(<<heads[i]>> \o task)]

IsStringList(val) ==
    val.t = "arr" /\ \A i \in 1..Len(val.v) : val.v[i].t = "str"

\* C9: what decomposeTask returns is the list of exactly N sub-tasks parsed
\* from the question agent's response, or the fallback set; it is the fallback
\* set when the run rejected, when the response does not parse, and when the
\* parsed count differs from N.
C9_DecomposeReturnsSubtasksOrFallback ==
    pc = "dispatch" =>
        LET parsed == JSONParse(Trim(questionAgent.result))
            fromModel == /\ questionAgent.st = "returned"
                         /\ parsed.ok
                         /\ IsStringList(parsed.val)
                         /\ Len(parsed.val.v) = NumAgents
        IN  /\ IsStringList(subtasks)
            /\ fromModel => subtasks = parsed.val
            /\ ~fromModel => subtasks.v = C9_FallbackSet(userTask, NumAgents)

\* C10: when every reply of the model to the question agent is the text of a
\* JSON array of exactly N strings, decomposeTask returns those N strings, in
\* order, whatever max_iterations.
C10_ArrayRepliesAreReturned ==
    (/\ pc = "dispatch"
     /\ questionAgent.st = "returned"
     /\ Len(Turns(questionAgent)) >= 1
     /\ \A i \in 1..Len(Turns(questionAgent)) :
           Turns(questionAgent)[i].content = ArrayText(NumAgents))
    => subtasks = JArr([i \in 1..NumAgents |-> JStr(<<Letters[i]>>)])

\* ------------------------------------------- claims on the aggregation
\* The indices of the sub-agents whose Agent Result has status 'success'.
Successes(ws) == {i \in DOMAIN ws : ws[i].value.status = "success"}

\* No synthesis agent has been constructed and no synthesis call was made.
NoSynthesis == synthesisInput = <<>> /\ synthesisAgent = NewAgent

\* The elements of a finite set of integers, in ascending order.
RECURSIVE Ascending(_)
Ascending(S) ==
    IF S = {} THEN <<>>
    ELSE LET m == CHOOSE x \in S : \A y \in S : x <= y
         IN  <<m>> \o Ascending(S \ {m})

\* The responses stored for the successful sub-agents, by ascending index.
SuccessfulResponses ==
    LET ids == Ascending(Successes(workers))
    IN  [k \in 1..Len(ids) |-> agentResults[ids[k]]]

\* C11: when the collection has ended and no Agent Result has status
\* 'success', orchestrate has returned the fixed all-failed message; it has not
\* rejected, and no synthesis agent was constructed or called.
C11_AllFailedReturnsFixedMessage ==
    (Collected /\ Successes(workers) = {}) =>
        /\ pc = "returned"
        /\ finalResult = <<"All agents failed to provide results. Please try again.">>
        /\ NoSynthesis

C11_Witness ==
    /\ pc = "returned"
    /\ Cardinality(DOMAIN workers) = 3
    /\ \A i \in DOMAIN workers : workers[i].value.status = "error"
    /\ finalResult = AllFailedMessage

\* C12: when exactly one sub-agent succeeded, whatever the number of the
\* others that failed, orchestrate has returned that agent's response text as
\* it is, and no synthesis agent was constructed or called.
C12_SingleSuccessReturnedVerbatim ==
    \A i \in DOMAIN workers :
        (Collected /\ Successes(workers) = {i}) =>
            /\ pc = "returned"
            /\ finalResult = agentResults[i]
            /\ NoSynthesis

C12_Witness ==
    /\ pc = "returned"
    /\ Cardinality(DOMAIN workers) = 3
    /\ Successes(workers) = {1}
    /\ finalResult = <<"R", "b">>

\* The prompt the claim describes: the synthesis template with the number of
\* successful results and their labelled concatenation.
C13_Prompt(responses) ==
    <<"Synthesize ", ToString(Len(responses)), " responses: ">>
    \o Concat([k \in 1..Len(responses) |->
                 <<"=== AGENT ", ToString(k), " RESPONSE ===", NL>>
                 \o responses[k] \o <<NL, NL>>])

\* C13: with two or more successful results, the synthesis agent is run on
\* the synthesis template in which the number of successful results and the
\* labelled concatenation of the successful responses, by ascending agent
\* index and numbered from 1, stand for the placeholders; failed results
\* contribute nothing.
C13_SynthesisPromptListsSuccesses ==
    (Collected /\ Cardinality(Successes(workers)) >= 2) =>
        /\ synthesisInput = SuccessfulResponses
        /\ pc = "synthesis" =>
              /\ synthesisAgent.messages[2].role = "user"
              /\ synthesisAgent.messages[2].content = C13_Prompt(SuccessfulResponses)

\* The scenario of C14: three sub-agents succeeded with their responses, and
\* the synthesis run has returned after the model answered every call with the
\* text alone.
C14_Scenario ==
    /\ pc = "synthesis"
    /\ agentResults = (0 :> <<"R", "a">> @@ 1 :> <<"R", "b">> @@ 2 :> <<"R", "c">>)
    /\ Successes(workers) = {0, 1, 2}
    /\ synthesisAgent.st = "returned"
    /\ \A k \in 1..Len(Turns(synthesisAgent)) :
          /\ Turns(synthesisAgent)[k].content = <<"S">>
          /\ Turns(synthesisAgent)[k].tool_calls = <<>>

\* C14: in the scenario of three successful sub-agents and a synthesis model
\* that answers the same text to each call, orchestrate returns exactly that
\* text, whatever max_iterations.
C14_ScenarioReturnsSynth ==
    [][(C14_Scenario /\ pc' = "returned") => finalResult' = <<"S">>]_vars

\* The text C15 describes: for each response its heading line, its text and
\* an empty line, all joined by newlines.
C15_Concatenation(responses) ==
    Concat([k \in 1..Len(responses) |->
              <<"=== Agent ", ToString(k), " Response ===", NL>>
              \o responses[k] \o <<NL>>
              \o (IF k < Len(responses) THEN <<NL>> ELSE <<>>)])

\* C15: when the synthesis agent's run has rejected, the next step of the
\* orchestration is its return (the error does not propagate), and what it
\* returns is the labelled concatenation of the successful responses, by
\* ascending agent index and numbered from 1.
C15_SynthesisFailureFallsBack ==
    [][(pc = "synthesis" /\ synthesisAgent.st = "rejected") =>
          /\ pc' = "returned"
          /\ finalResult' = C15_Concatenation(SuccessfulResponses)]_vars

C15_Witness ==
    /\ pc = "returned"
    /\ Cardinality(DOMAIN workers) = 4
    /\ Successes(workers) = {0, 3}
    /\ finalResult = C15_Concatenation(<< <<"R", "a">>, <<"$", "$", "R">> >>)

\* C16: orchestrate never rejects, whatever the model answers to the
\* decomposition prompt and whichever sub-agents or synthesis calls fail.
C16_OrchestrateNeverRejects == pc # "rejected"

\* C17: when the promise of sub-agent i settles after its run rejected, its
\* Agent Result is {agent_id: i, status: 'error', response: 'Error: ' followed
\* by the stringified error, execution_time: 0}; a sub-agent whose run
\* resolved yields status 'success' with its own response; the settlement
\* leaves every sibling as it was, and the collected results are those of the
\* sub-agents, each at its index.
C17_SubAgentFailureIsContained ==
    [][/\ \A i \in DOMAIN workers :
             (/\ workers[i].promise = "pending"
              /\ i \in DOMAIN workers'
              /\ workers'[i].promise = "fulfilled") =>
                 /\ workers[i].agent.st = "rejected" =>
                       \E cause \in Causes :
                          workers'[i].value =
                             [agent_id |-> i, status |-> "error",
                              response |-> <<"Error: ", "Error: ", "LLM call failed: ", cause>>,
                              execution_time |-> "0"]
                 /\ workers[i].agent.st = "returned" =>
                       /\ workers'[i].value.agent_id = i
                       /\ workers'[i].value.status = "success"
                       /\ workers'[i].value.response = workers[i].agent.result
                 /\ workers[i].agent.st \in {"returned", "rejected"}
                 /\ \A j \in DOMAIN workers \ {i} : workers'[j] = workers[j]
       /\ (pc = "collect" /\ pc' \in {"synthesis", "returned"}) =>
             /\ Len(results') = Cardinality(DOMAIN workers)
             /\ \A i \in DOMAIN workers : results'[i + 1] = workers[i].value]_vars

C17_Witness ==
    /\ pc = "synthesis"
    /\ Len(results) = 3
    /\ results[1].status = "error"
    /\ results[1].response = <<"Error: ", "Error: ", "LLM call failed: ", "Error: API Error">>
    /\ results[2].status = "success" /\ results[2].response = <<"R", "b">>
    /\ results[3].status = "success" /\ results[3].response = <<"R", "c">>

\* ------------------------------------------- claims on the collection
\* Aggregation has begun: the results exist, a synthesis agent exists, or
\* orchestrate is past the collection.
AggregationBegun ==
    \/ pc \in {"synthesis", "returned"}
    \/ results # <<>>
    \/ synthesisInput # <<>>
    \/ synthesisAgent # NewAgent
    \/ finalResult # EmptyText

\* C18: aggregation begins only when every dispatched sub-agent has settled:
\* while aggregateResults or a synthesis model call is under way or done, no
\* promise is pending, each sub-agent has settled once and has its result,
\* also when one of them failed before the others ended.
C18_AggregationAfterAllSettled ==
    AggregationBegun =>
        /\ \A i \in DOMAIN workers : workers[i].promise = "fulfilled"
        /\ Len(settled) = Cardinality(DOMAIN workers)
        /\ {settled[k] : k \in 1..Len(settled)} = DOMAIN workers
        /\ Len(results) = Cardinality(DOMAIN workers)

C18_Witness ==
    /\ pc = "synthesis"
    /\ config.max_iterations = 2
    /\ settled = <<1, 2, 0>>
    /\ workers[1].value.status = "error"
    /\ Successes(workers) = {0, 2}
    /\ synthesisAgent.createCalls = 2

\* C19: what is aggregated does not depend on the order in which the
\* sub-agents settled: the results are those of the sub-agents by ascending
\* index, and the responses given to synthesis, the synthesis prompt and the
\* value returned without synthesis are determined by the per-agent results
\* alone.
C19_AggregationIgnoresSettleOrder ==
    Collected =>
        /\ Len(results) = Cardinality(DOMAIN workers)
        /\ \A k \in 1..Len(results) : results[k] = workers[k - 1].value
        /\ \A k \in 1..Len(results) : results[k].agent_id = k - 1
        /\ Cardinality(Successes(workers)) = 0 => finalResult = AllFailedMessage
        /\ Cardinality(Successes(workers)) = 1 => finalResult = SuccessfulResponses[1]
        /\ Cardinality(Successes(workers)) >= 2 =>
              /\ synthesisInput = SuccessfulResponses
              /\ pc = "synthesis" =>
                    synthesisAgent.messages[2].content = SynthesisPromptFor(SuccessfulResponses)

C19_Witness ==
    /\ pc = "synthesis"
    /\ settled = <<2, 0, 1>>
    /\ synthesisInput = << <<"R", "a">>, <<"R", "b">>, <<"R", "c">> >>

\* ---------------------------------------- claims on the progress snapshot
\* C20: getProgressStatus hands out a copy: the map returned has the entries
\* of the progress map at the time of the call, which the call leaves as they
\* are; afterwards no step changes both maps: what the observer writes into
\* its map does not reach the progress map, and the updates and the reset of
\* the progress map do not reach the observer's map.
C20_SnapshotIsACopy ==
    [][/\ (~snapshot.held /\ snapshot'.held) =>
             /\ snapshot'.entries = agentProgress
             /\ agentProgress' = agentProgress
       /\ (snapshot.held /\ agentProgress' # agentProgress) => snapshot' = snapshot
       /\ (snapshot.held /\ snapshot' # snapshot) => agentProgress' = agentProgress]_vars

C20_Witness ==
    /\ pc = "collect"
    /\ NumAgents = 2
    /\ snapshot.entries = (0 :> ObserverStatus @@ 1 :> "COMPLETED")
    /\ agentProgress = (0 :> "COMPLETED" @@ 1 :> "PROCESSING...")

\* ------------------------------------------- claims on the progress map
\* The place of a status in the order QUEUED, PROCESSING..., COMPLETED.
Rank(status) ==
    CASE status = "QUEUED" -> 1
      [] status = "PROCESSING..." -> 2
      [] status = "COMPLETED" -> 3
      [] OTHER -> 0

\* C21: the progress map is empty when decomposition begins, also in a call
\* that follows another one; the step after decomposition leaves every index
\* 0..N-1 in the map, PROCESSING... for the dispatched agents, whose first
\* model call is then under way, and QUEUED for the others; an entry becomes
\* COMPLETED in the step in which the run of its agent, having resolved, is
\* taken up by runAgentParallel, and in no other; within a call no entry
\* disappears or moves backwards in the order QUEUED, PROCESSING...,
\* COMPLETED.
C21_ProgressLifecycle ==
    [][/\ pc' = "decompose" => agentProgress' = <<>>
       /\ pc = "dispatch" =>
             /\ DOMAIN agentProgress' = 0..(NumAgents - 1)
             /\ \A i \in 0..(NumAgents - 1) :
                   agentProgress'[i] =
                      IF i \in DOMAIN workers' THEN "PROCESSING..." ELSE "QUEUED"
             /\ \A i \in DOMAIN workers' : workers'[i].agent.createCalls = 1
       /\ pc' # "decompose" =>
             \A i \in DOMAIN agentProgress :
                /\ i \in DOMAIN agentProgress'
                /\ Rank(agentProgress[i]) >= 1
                /\ Rank(agentProgress'[i]) >= Rank(agentProgress[i])
       /\ (pc = "collect" /\ pc' = "collect") =>
             \A i \in DOMAIN workers :
                (agentProgress[i] # "COMPLETED" /\ agentProgress'[i] = "COMPLETED")
                <=> (/\ workers[i].promise = "pending"
                     /\ workers[i].agent.st = "returned"
                     /\ workers'[i].promise = "fulfilled")]_vars

C21_Witness ==
    /\ pc = "returned"
    /\ agentProgress = (0 :> "COMPLETED" @@ 1 :> "PROCESSING..." @@ 2 :> "COMPLETED"
                         @@ 3 :> "COMPLETED" @@ 4 :> "QUEUED")

\* C22: a sub-agent whose run rejected keeps the entry PROCESSING...; no entry
\* ever holds another status than QUEUED, PROCESSING... and COMPLETED; and
\* once orchestrate has returned, entry i is COMPLETED exactly when Agent
\* Result i has status 'success'.
C22_FailedAgentStaysProcessing ==
    /\ \A i \in DOMAIN agentProgress :
          agentProgress[i] \in {"QUEUED", "PROCESSING...", "COMPLETED"}
    /\ \A i \in DOMAIN workers :
          (workers[i].agent.st = "rejected" \/ workers[i].value.status = "error") =>
              agentProgress[i] = "PROCESSING..."
    /\ pc = "returned" =>
          \A i \in DOMAIN agentProgress :
              agentProgress[i] = "COMPLETED" <=>
                  \E k \in 1..Len(results) :
                     results[k].agent_id = i /\ results[k].status = "success"

C22_Witness ==
    /\ pc = "returned"
    /\ Len(results) = 3
    /\ results[2].status = "error"
    /\ agentProgress = (0 :> "COMPLETED" @@ 1 :> "PROCESSING..." @@ 2 :> "COMPLETED")

\* ------------------------------------------ claims on the dispatch loop
\* The number of calls of a list the loop gets to: up to the first call
\* named mark_task_complete, that one included.
RECURSIVE DispatchedCount(_, _)
DispatchedCount(calls, j) ==
    IF j > Len(calls) THEN Len(calls)
    ELSE IF calls[j].name = "mark_task_complete" THEN j
    ELSE DispatchedCount(calls, j + 1)

\* The capability of call j of the reply at p was invoked.
Invoked(a, p, j) == \E e \in 1..Len(a.executed) : a.executed[e].at = p + j

\* C29: the tool calls of a reply are dispatched in the order issued, up to
\* the first one named mark_task_complete: the messages that follow the reply
\* are their tool results, one each, in that order and under their own
\* tool_call_id, and the invocations happened in that order; the calls after
\* the completion call are neither invoked nor answered, and the run has
\* returned.
C29_DispatchInOrderUntilCompletion ==
    /\ \A p \in TurnStarts(agent) :
          LET calls == CallsAt(agent, p)
              d == DispatchedCount(calls, 1)
          IN  /\ \A j \in 1..d : Answered(agent, p, j)
              /\ p + d < Len(agent.messages) => agent.messages[p + d + 1].role = "assistant"
              /\ \A j \in 1..d : Invoked(agent, p, j) <=>
                    (calls[j].name \in agent.toolMapping /\ JSONParse(calls[j].arguments).ok)
              /\ \A j \in (d + 1)..Len(calls) : ~Invoked(agent, p, j)
              /\ d < Len(calls) => (p + d = Len(agent.messages) /\ agent.st = "returned")
    /\ \A e \in 1..Len(agent.executed) :
          /\ e > 1 => agent.executed[e - 1].at < agent.executed[e].at
          /\ agent.messages[agent.executed[e].at].name = agent.executed[e].name

C29_Witness ==
    /\ agent.st = "returned"
    /\ \E p \in TurnStarts(agent) :
          /\ p > 3
          /\ Len(CallsAt(agent, p)) = 3
          /\ DispatchedCount(CallsAt(agent, p), 1) = 2
          /\ Invoked(agent, p, 1) /\ Invoked(agent, p, 2)
          /\ Len(agent.messages) = p + 2

\* C30: the run of the planning agent never ends on a model reply: when it
\* has returned, it has used all of max_iterations.
C30_PlanningRunNeverCompletes ==
    (pc \in {"decompose", "dispatch"} /\ questionAgent.st = "returned") =>
        /\ questionAgent.iteration = config.max_iterations
        /\ Len(Turns(questionAgent)) = config.max_iterations

\* ------------------------------------------- a run that uses the tools
\* The arguments texts the model sends: JSON objects of the parameters the
\* tools declare.
Summaries == {<<"s">>}
CompletionMessages == {<<"m">>}

CompletionArgs(s, m) ==
    <<"{", DQ, "task_summary", DQ, ":", DQ>> \o s \o
    <<DQ, ",", DQ, "completion_message", DQ, ":", DQ>> \o m \o <<DQ, "}">>
SearchArgs == <<"{", DQ, "query", DQ, ":", DQ, "q", DQ, "}">>
CalculateArgs == <<"{", DQ, "expression", DQ, ":", DQ, "e", DQ, "}">>

ToolBatches ==
    { <<>>,
      <<ToolCall("call_1", "calculate", CalculateArgs)>>,
      <<ToolCall("call_1", "search_web", SearchArgs)>>,
      <<ToolCall("call_1", "search_web", SearchArgs),
        ToolCall("call_2", "calculate", CalculateArgs)>> }
    \cup { <<ToolCall("call_1", CompletionTool, CompletionArgs(s, m))>> :
              s \in Summaries, m \in CompletionMessages }

ToolReplies == [content : {EmptyText, <<"a">>}, tool_calls : ToolBatches]

\* The pending model call resolves with a reply that uses the tools.
ToolLLMResolves ==
    /\ agent.st = "awaitLLM"
    /\ \E reply \in ToolReplies : \E outs \in OutcomesFor(agent, reply.tool_calls) :
          agent' = OnReply(agent, reply, outs)
    /\ UNCHANGED <<shell, config, orchVars>>

ToolNext == Run \/ ToolLLMResolves \/ LLMRejects

ToolSpec == Init /\ [][ToolNext]_vars

\* ------------------------------------------ claims on the tool results
\* value[key] of a parsed JSON value: undefined where there is no such member.
Get(value, key) ==
    IF value.t # "obj" THEN JUndefined
    ELSE LET at == {i \in DOMAIN value.v : value.v[i].key = <<key>>} IN
         IF at = {} THEN JUndefined
         ELSE value.v[CHOOSE i \in at : \A k \in at : k <= i].val

\* The value is the string with this text.
IsStr(value, text) == value.t = "str" /\ value.v = text

\* The tool-result messages of the conversation that carry a result of the
\* capability of this name.
ResultsOf(a, name) ==
    {k \in DOMAIN a.messages :
        /\ a.messages[k].role = "tool"
        /\ a.messages[k].name = name
        /\ a.messages[k].payload.kind = "result"}

\* C23: the tool-result message of a dispatched mark_task_complete call with
\* arguments {task_summary: s, completion_message: m} carries a payload with
\* status 'completed', task_summary s, completion_message m and a timestamp.
C23_CompletionPayloadCarriesArguments ==
    \A k \in ResultsOf(agent, CompletionTool) :
        LET args == agent.messages[k].payload.args
            payload == JSONParse(agent.messages[k].payload.text).val
        IN  \A s \in Summaries, m \in CompletionMessages :
               (IsStr(Get(args, "task_summary"), s) /\ IsStr(Get(args, "completion_message"), m))
               => /\ IsStr(Get(payload, "status"), <<"completed">>)
                  /\ IsStr(Get(payload, "task_summary"), s)
                  /\ IsStr(Get(payload, "completion_message"), m)
                  /\ Get(payload, "timestamp").t = "str"

\* What the dispatch does instead: the summary of the payload is the whole
\* arguments object and the payload has no completion message.
C23_PayloadOfTheCode ==
    \A k \in ResultsOf(agent, CompletionTool) :
        LET args == agent.messages[k].payload.args
            payload == JSONParse(agent.messages[k].payload.text).val
        IN  /\ JSONParse(agent.messages[k].payload.text).ok
            /\ IsStr(Get(payload, "status"), <<"completed">>)
            /\ Get(payload, "task_summary").t = args.t
            /\ Get(payload, "task_summary").v = args.v
            /\ Get(payload, "completion_message").t = "undefined"
            /\ Get(payload, "timestamp").t = "str"

C23_Reached == agent.st = "returned" /\ ResultsOf(agent, CompletionTool) # {}

\* The serialized payloads the capability of this name can produce for these
\* arguments: of what it returns or, where it is asynchronous, of what its
\* promise settles with, a failed search included.
SettledPayloads(name, args) ==
    {JSONStringify(Settled(name, args, JUndefined, out)) : out \in Outcomes}

\* C24: for every tool call whose tool is in the registry and whose
\* capability gave a result, the tool-result message in the conversation,
\* which the next model call is given, contains the serialized result of
\* the capability, synchronous or asynchronous: the settled result of the
\* search, or its error payload where the search failed.
C24_ResultMessageCarriesSettledPayload ==
    \A name \in agent.toolMapping :
        \A k \in ResultsOf(agent, name) :
            agent.messages[k].payload.text \in
                SettledPayloads(name, agent.messages[k].payload.args)

\* What the dispatch does: the claim holds for the synchronous tools, and the
\* message of an asynchronous tool is the serialized promise, {} .
C24_PayloadOfTheCode ==
    \A name \in agent.toolMapping :
        \A k \in ResultsOf(agent, name) :
            IF name \in AsyncTools
            THEN agent.messages[k].payload.text = <<"{", "}">>
            ELSE agent.messages[k].payload.text \in
                    SettledPayloads(name, agent.messages[k].payload.args)

\* The next model call is pending with the result of a search in the
\* conversation.
C24_Reached ==
    /\ agent.st = "awaitLLM"
    /\ ResultsOf(agent, "search_web") # {}
    /\ ResultsOf(agent, "calculate") # {}

\* ------------------------------------------------ the lines of a user
\* String.prototype.toLowerCase, on the letters the lines are written in.
LowerOf(c) ==
    CASE c = "B" -> "b" [] c = "E" -> "e" [] c = "I" -> "i" [] c = "Q" -> "q"
      [] c = "T" -> "t" [] c = "U" -> "u" [] c = "X" -> "x" [] c = "Y" -> "y"
      [] OTHER -> c

RECURSIVE ToLowerCase(_)
ToLowerCase(s) == IF s = <<>> THEN <<>> ELSE <<LowerOf(Head(s))>> \o ToLowerCase(Tail(s))

QuitWords == {<<"q", "u", "i", "t">>, <<"e", "x", "i", "t">>, <<"b", "y", "e">>}

\* The first test of the callback: the line, as it is, is a quit word in any
\* letter case.
IsQuit(userInput) == ToLowerCase(userInput) \in QuitWords

\* !userInput.trim()
IsBlank(userInput) == Trim(userInput) = EmptyText

\* The lines a user types.
Lines ==
    { <<"q", "u", "i", "t">>, <<"E", "x", "I", "T">>, <<"B", "Y", "E">>,
      EmptyText, <<" ", " ">>, <<"t">>, <<" ", "b", "y", "e">> }

\* --------------------------------------------- the multi-agent program
\* Largest orchestrator.parallel_agents of an orchestration run from the
\* command line.
CliConfigs == {c \in OrchConfigs : c.parallel_agents <= MaxObservedAgents}

CliInit ==
    /\ config \in CliConfigs
    /\ agent = NewAgent
    /\ OrchIdle
    /\ ShellIdle

\* runTask(userInput) up to its await of orchestrate: the running flag is
\* set and the progress monitor started; caller is who awaits runTask.
runTaskCall(c, userInput, caller) ==
    [c EXCEPT !.running = TRUE, !.st = "runTask", !.task = userInput,
              !.caller = caller, !.returned = NotReturned]

\* askQuestion called with this value of this: rl.question registers the
\* callback, an arrow function that sees the same this.
askQuestion(c, this) == [c EXCEPT !.st = "prompt", !.pending = @ + 1, !.this = this]

\* A mutant of runTaskReturns: the catch leaves the running flag as it is.
runTaskReturnsStillRunning(c, settledAs, result) ==
    LET d == IF settledAs = "returned"
             THEN [c EXCEPT !.running = FALSE,
                            !.returned = [kind |-> "result", text |-> result]]
             ELSE [c EXCEPT !.returned = [kind |-> "null", text |-> EmptyText]]
    IN  IF c.caller = "interactive"
        THEN askQuestion([d EXCEPT !.caller = "none"], c.this)
        ELSE [d EXCEPT !.st = "constructed", !.caller = "none"]

\* runTask after orchestrate has settled: the flag is cleared and the result
\* returned, or null from the catch; the callback that awaited runTask then
\* asks again.
runTaskReturns(c, settledAs, result) ==
    LET d == IF settledAs = "returned"
             THEN [c EXCEPT !.running = FALSE,
                            !.returned = [kind |-> "result", text |-> result]]
             ELSE [c EXCEPT !.running = FALSE,
                            !.returned = [kind |-> "null", text |-> EmptyText]]
    IN  IF c.caller = "interactive"
        THEN askQuestion([d EXCEPT !.caller = "none"], c.this)
        ELSE [d EXCEPT !.st = "constructed", !.caller = "none"]

\* The callback of rl.question is given a line. Where this is undefined,
\* this.runTask raises a TypeError: the callback's promise rejects, runTask is
\* not called and askQuestion is not reached.
onLine(c, userInput) ==
    LET d == [c EXCEPT !.pending = @ - 1, !.input = userInput] IN
    IF IsQuit(userInput) THEN [d EXCEPT !.st = "closed"]
    ELSE IF IsBlank(userInput) THEN askQuestion(d, d.this)
    ELSE IF d.this = "undefined" THEN [d EXCEPT !.st = "threw"]
    ELSE runTaskCall(d, userInput, "interactive")

\* cli.runTask(userInput) is called on the constructed object.
runTask ==
    /\ cli.st = "constructed"
    /\ \E userInput \in UserTasks :
          /\ cli' = runTaskCall(cli, userInput, "direct")
          /\ orchestrate(userInput)
    /\ UNCHANGED <<mainLoop, disk>>

\* The orchestrate call runTask awaits has settled.
RunTaskSettles ==
    /\ cli.st = "runTask"
    /\ pc \in {"returned", "rejected"}
    /\ cli' = runTaskReturns(cli, pc, finalResult)
    /\ UNCHANGED <<config, agent, orchVars, mainLoop, disk>>

\* cli.interactiveMode() is called: the configuration is loaded again, the
\* readline interface created, and askQuestion called as a plain function,
\* which in a class body leaves its this undefined.
interactiveMode ==
    /\ cli.st = "constructed"
    /\ \E loaded \in BOOLEAN :
          cli' = IF loaded THEN askQuestion(cli, "undefined") ELSE [cli EXCEPT !.st = "returned"]
    /\ UNCHANGED <<config, agent, orchVars, mainLoop, disk>>

\* The user answers the outstanding question.
CliAnswer ==
    /\ cli.st = "prompt" /\ cli.pending > 0
    /\ \E userInput \in Lines :
          /\ cli' = onLine(cli, userInput)
          /\ IF onLine(cli, userInput).st = "runTask"
             THEN orchestrate(userInput)
             ELSE UNCHANGED <<config, agent, orchVars>>
    /\ UNCHANGED <<mainLoop, disk>>

CliNext ==
    \/ runTask
    \/ QuestionLLMResolves
    \/ QuestionLLMRejects
    \/ DecomposeReturns
    \/ Dispatch
    \/ \E i \in DOMAIN workers : WorkerLLMResolves(i)
    \/ \E i \in DOMAIN workers : WorkerLLMRejects(i)
    \/ \E i \in DOMAIN workers : WorkerSettles(i)
    \/ Collect
    \/ SynthesisLLMResolves
    \/ SynthesisLLMRejects
    \/ SynthesisSettles
    \/ RunTaskSettles
    \/ interactiveMode
    \/ CliAnswer

CliSpec == CliInit /\ [][CliNext]_vars

\* -------------------------------------- claims on the multi-agent program
\* C25: runTask never rejects. While it awaits orchestrate the running flag
\* is true; when orchestrate has settled runTask returns, the result of
\* orchestrate where it resolved and null where it rejected, and the flag is
\* false from then on, until a next task starts.
C25_RunTaskReturnsResultOrNull ==
    [][/\ cli.st = "runTask" => cli.running
       /\ cli'.st = "runTask" => cli'.running
       /\ cli'.st # "runTask" => ~cli'.running
       /\ (cli.st = "runTask" /\ cli'.st # "runTask") =>
             /\ pc \in {"returned", "rejected"}
             /\ pc = "returned" => cli'.returned = [kind |-> "result", text |-> finalResult]
             /\ pc = "rejected" => cli'.returned = [kind |-> "null", text |-> EmptyText]]_vars

C25_Witness ==
    /\ cli.st = "constructed"
    /\ pc = "rejected"
    /\ cli.task = <<"t">>
    /\ cli.returned.kind = "null"
    /\ ~cli.running

\* The runs the claim is also about: orchestrate resolved and runTask
\* returned its result.
C25_Resolved ==
    /\ cli.st = "constructed"
    /\ pc = "returned"
    /\ cli.returned = [kind |-> "result", text |-> finalResult]
    /\ ~cli.running

\* C27: in the interactive mode an input that is not blank and not a quit
\* word makes the callback call runTask with exactly that input, and when
\* runTask has settled the user is asked again.
C27_InputRunsTaskThenPromptsAgain ==
    [][/\ (cli.st = "prompt" /\ cli' # cli /\ ~IsQuit(cli'.input) /\ ~IsBlank(cli'.input)) =>
             (cli'.st = "runTask" /\ cli'.task = cli'.input /\ userTask' = cli'.input)
       /\ (cli.st = "runTask" /\ cli.caller = "interactive" /\ cli'.st # "runTask") =>
             (cli'.st = "prompt" /\ cli'.pending = 1)]_vars

\* What the program does instead: the callback fails on such an input, and
\* in the interactive mode runTask is never called and no prompt follows.
C27_InputEndsTheLoop ==
    [][/\ (cli.st = "prompt" /\ cli' # cli /\ ~IsQuit(cli'.input) /\ ~IsBlank(cli'.input)) =>
             (cli'.st = "threw" /\ cli'.pending = 0 /\ cli'.task = cli.task /\ pc' = pc)
       /\ cli.st = "threw" => cli' = cli
       /\ cli.caller # "interactive"]_vars

\* --------------------------------------------- the single-agent program
\* Largest agent.max_iterations of the agent of the interactive loop.
MaxMainIterations == 2

MainInit ==
    /\ config \in [max_iterations : 1..MaxMainIterations, parallel_agents : {1}]
    /\ agent = NewAgent
    /\ OrchIdle
    /\ ShellIdle

\* askQuestion of main: rl.question registers the callback.
mainAskQuestion(m) == [m EXCEPT !.st = "prompt", !.pending = @ + 1]

\* The callback of rl.question up to its return or its await of agent.run.
mainOnLine(m, userInput) ==
    LET d == [m EXCEPT !.pending = @ - 1, !.input = userInput] IN
    IF IsQuit(userInput) THEN [d EXCEPT !.st = "closed"]
    ELSE IF IsBlank(userInput) THEN mainAskQuestion(d)
    ELSE [d EXCEPT !.st = "thinking"]

\* A mutant of mainAfterRun: the catch reports the error and does not ask
\* again.
mainAfterRunErrorEnds(m, settledAs) ==
    IF settledAs = "returned"
    THEN mainAskQuestion([m EXCEPT !.report = "response"])
    ELSE [m EXCEPT !.report = "error", !.st = "returned"]

\* The callback after agent.run has settled: the response or the error is
\* reported, and askQuestion is called.
mainAfterRun(m, settledAs) ==
    IF settledAs = "returned"
    THEN mainAskQuestion([m EXCEPT !.report = "response"])
    ELSE mainAskQuestion([m EXCEPT !.report = "error"])

\* main() is called: the agent is constructed and the loop started, or the
\* initialization fails and main returns.
Main ==
    /\ mainLoop.st = "start"
    /\ \E initialized \in BOOLEAN :
          mainLoop' = IF initialized THEN mainAskQuestion(mainLoop)
                      ELSE [mainLoop EXCEPT !.st = "returned"]
    /\ UNCHANGED <<config, agent, orchVars, cli, disk>>

\* The user answers the outstanding question; a task line starts agent.run,
\* whose counters of an earlier run are dropped.
MainAnswer ==
    /\ mainLoop.st = "prompt" /\ mainLoop.pending > 0
    /\ \E userInput \in Lines :
          /\ mainLoop' = mainOnLine(mainLoop, userInput)
          /\ agent' = IF mainOnLine(mainLoop, userInput).st = "thinking"
                      THEN RunStart([agent EXCEPT !.createCalls = 0, !.executed = <<>>],
                                    userInput)
                      ELSE agent
    /\ UNCHANGED <<config, orchVars, cli, disk>>

\* agent.run has settled: its locals are gone, the callback goes on.
MainRunSettles ==
    /\ mainLoop.st = "thinking"
    /\ agent.st \in {"returned", "rejected"}
    /\ mainLoop' = mainAfterRun(mainLoop, agent.st)
    /\ agent' = NewAgent
    /\ UNCHANGED <<config, orchVars, cli, disk>>

MainNext ==
    \/ Main
    \/ MainAnswer
    \/ LLMResolves
    \/ LLMRejects
    \/ MainRunSettles

MainSpec == MainInit /\ [][MainNext]_vars

\* ------------------------------------- claims on the single-agent program
\* What the lines do to the loop: a quit word in any letter case closes the
\* interface, after which nothing is asked and nothing runs; a blank line
\* does not call agent.run and is followed by a new prompt; a rejected
\* agent.run is reported and followed by a new prompt.
C26_LinesOfTheLoop ==
    /\ (mainLoop.st = "prompt" /\ mainLoop' # mainLoop /\ IsQuit(mainLoop'.input)) =>
          (mainLoop'.st = "closed" /\ mainLoop'.pending = 0 /\ agent' = agent)
    /\ mainLoop.st = "closed" => (mainLoop' = mainLoop /\ agent' = agent)
    /\ (mainLoop.st = "prompt" /\ mainLoop' # mainLoop
           /\ ~IsQuit(mainLoop'.input) /\ IsBlank(mainLoop'.input)) =>
          (mainLoop'.st = "prompt" /\ mainLoop'.pending = 1 /\ agent' = agent)
    /\ (mainLoop.st = "thinking" /\ mainLoop'.st # "thinking") =>
          /\ agent.st \in {"returned", "rejected"}
          /\ mainLoop'.report = (IF agent.st = "rejected" THEN "error" ELSE "response")
          /\ mainLoop'.st = "prompt" /\ mainLoop'.pending = 1
    /\ agent'.st = "awaitLLM" => (mainLoop'.st = "thinking" /\ ~IsBlank(mainLoop'.input))

\* C26, as it is stated: for any sequence of lines the loop does the above,
\* and from its first question until the interface is closed exactly one
\* prompt is outstanding at any time.
C26_ExactlyOnePromptAtAnyTime ==
    [][/\ C26_LinesOfTheLoop
       /\ mainLoop'.st \in {"prompt", "thinking"} => mainLoop'.pending = 1]_vars

\* C26, amended: for any sequence of lines the loop does the above, and at
\* most one prompt is outstanding at any time: exactly one while the loop
\* waits for a line, none while agent.run is pending and none once the
\* interface is closed.
C26_AtMostOnePrompt ==
    [][/\ C26_LinesOfTheLoop
       /\ mainLoop'.pending <= 1
       /\ mainLoop'.pending = 1 <=> mainLoop'.st = "prompt"]_vars

\* A rejected run was reported and the loop asks again.
C26_Witness ==
    /\ mainLoop.st = "prompt"
    /\ mainLoop.report = "error"
    /\ mainLoop.pending = 1
    /\ mainLoop.input = <<" ", " ">>

\* -------------------------------------------------------- write_file
\* The payloads of WriteFileTool.execute.
WriteSuccess(content) ==
    [kind |-> "success", text |-> <<"Successfully wrote to ", "filePath">>,
     bytes |-> Len(content)]
WriteError(message) ==
    [kind |-> "error", text |-> <<"Failed to write file: ", message>>, bytes |-> 0]

\* A call of a function of fs is recorded with whether it threw.
Called(d, fn, threw) == [d EXCEPT !.calls = Append(@, [fn |-> fn, threw |-> threw])]

\* What the calls of fs do when they are reached: each may throw; a failing
\* writeFileSync may have created or truncated the file before it failed.
Faults ==
    [mkdir : BOOLEAN, write : {"ok", "throws", "throwsPartial"},
     rename : BOOLEAN, unlink : BOOLEAN]

\* A mutant of CleanUp: the temporary file is left where it is.
CleanUpKeepsTemp(d, f, message) == [d EXCEPT !.result = WriteError(message)]

\* The inner catch and, with what it rethrows, the outer one: the temporary
\* file is unlinked if it exists; an unlinkSync that throws replaces the
\* error, and the file stays.
CleanUp(d, f, message) ==
    IF d.temp.exists
    THEN IF f.unlink
         THEN [Called(d, "unlinkSync", TRUE) EXCEPT !.result = WriteError("EBUSY: unlink")]
         ELSE [Called(d, "unlinkSync", FALSE) EXCEPT !.temp = Absent,
                                                    !.result = WriteError(message)]
    ELSE [d EXCEPT !.result = WriteError(message)]

\* fs.renameSync(tempPath, absPath) and the return of the success payload.
Rename(d, f) ==
    IF f.rename
    THEN CleanUp(Called(d, "renameSync", TRUE), f, "EPERM: rename")
    ELSE [Called(d, "renameSync", FALSE) EXCEPT !.target = d.temp, !.temp = Absent,
                                                !.result = WriteSuccess(d.content)]

\* fs.writeFileSync(tempPath, content, 'utf-8') and what follows it.
WriteTemp(d, f) ==
    IF f.write = "ok"
    THEN Rename([Called(d, "writeFileSync", FALSE) EXCEPT !.temp = File(d.content)], f)
    ELSE IF f.write = "throwsPartial"
    THEN CleanUp([Called(d, "writeFileSync", TRUE) EXCEPT !.temp = File(EmptyText)],
                 f, "ENOSPC: write")
    ELSE CleanUp(Called(d, "writeFileSync", TRUE), f, "EACCES: open")

\* WriteFileTool.execute(filePath, content): path.resolve throws a TypeError
\* on a path that is not a string; the parent directory is made if it is
\* not there; then the temporary file is written and renamed.
WriteFileExecute(d, filePath, content, f) ==
    LET called == [d EXCEPT !.calls = <<>>, !.content = content, !.call = 1 - @]
        d0 == Called(called, "resolve", filePath.t # "str")
    IN
    IF filePath.t # "str"
    THEN [d0 EXCEPT !.result = WriteError("The \"paths[0]\" argument must be of type string")]
    ELSE IF ~d0.parent
    THEN IF f.mkdir
         THEN [Called(d0, "mkdirSync", TRUE) EXCEPT !.result = WriteError("EACCES: mkdir")]
         ELSE WriteTemp([Called(d0, "mkdirSync", FALSE) EXCEPT !.parent = TRUE], f)
    ELSE WriteTemp(d0, f)

\* The paths and contents write_file is called with.
FilePaths == {JStr(<<"f">>), JObj(<<>>)}
FileContents == {<<"a">>, <<"b", "b">>}

\* The file systems execute may find: the target and a stale temporary file
\* can only be there if their directory is.
Disks ==
    { [NoDisk EXCEPT !.parent = p, !.target = t, !.temp = tmp] :
        p \in {TRUE}, t \in {Absent, File(<<"o">>)}, tmp \in {Absent, File(<<"x">>)} }
    \cup {[NoDisk EXCEPT !.parent = FALSE]}

WriteInit ==
    /\ config \in [max_iterations : {1}, parallel_agents : {1}]
    /\ agent = NewAgent
    /\ OrchIdle
    /\ cli = NewCLI
    /\ mainLoop = NewMainLoop
    /\ disk \in Disks

\* tool.execute(filePath, content) is called.
WriteFile ==
    /\ \E filePath \in FilePaths, content \in FileContents, f \in Faults :
          disk' = WriteFileExecute(disk, filePath, content, f)
    /\ UNCHANGED <<config, agent, orchVars, cli, mainLoop>>

\* Another program removes or replaces the files between two calls.
DiskChanges ==
    /\ \E d \in Disks : disk' = [disk EXCEPT !.parent = d.parent, !.target = d.target,
                                             !.temp = d.temp]
    /\ UNCHANGED <<config, agent, orchVars, cli, mainLoop>>

WriteNext == WriteFile \/ DiskChanges

WriteSpec == WriteInit /\ [][WriteNext]_vars

\* ------------------------------------------------- claims on write_file
\* fn was called by the last execute, and threw.
Threw(d, fn) == \E i \in DOMAIN d.calls : d.calls[i].fn = fn /\ d.calls[i].threw
\* fn was called by the last execute, and returned.
Succeeded(d, fn) == \E i \in DOMAIN d.calls : d.calls[i].fn = fn /\ ~d.calls[i].threw

\* A step of execute (the calls it made are those of disk').
IsExecuteStep == disk'.call # disk.call

\* What C28 says apart from the removal: the content is written to the
\* temporary file and that file renamed onto the target, in this order;
\* execute never throws: a failure gives the payload {error: 'Failed to
\* write file: <message>'}; the target changes only if the rename succeeded.
C28_WriteThenRename ==
    /\ disk'.result.kind \in {"success", "error"}
    /\ disk'.result.kind = "error" <=>
          \E i \in DOMAIN disk'.calls : disk'.calls[i].threw
    /\ disk'.result.kind = "error" =>
          (Len(disk'.result.text) = 2 /\ disk'.result.text[1] = "Failed to write file: ")
    /\ disk'.result.kind = "success" =>
          /\ Succeeded(disk', "writeFileSync") /\ Succeeded(disk', "renameSync")
          /\ disk'.calls[Len(disk'.calls)].fn = "renameSync"
          /\ disk'.calls[Len(disk'.calls) - 1].fn = "writeFileSync"
          /\ disk'.target = File(disk'.content)
          /\ ~disk'.temp.exists
    /\ disk'.target # disk.target => Succeeded(disk', "renameSync")
    /\ ~Succeeded(disk', "renameSync") => disk'.target = disk.target

\* C28, as it is stated: with the above, when the write or the rename
\* failed the temporary file is removed if it exists, so none is left.
C28_TempRemovedOnFailure ==
    [][IsExecuteStep =>
          /\ C28_WriteThenRename
          /\ (Threw(disk', "writeFileSync") \/ Threw(disk', "renameSync")) =>
                ~disk'.temp.exists]_vars

\* C28, amended: with the above, when the write or the rename failed the
\* removal of the temporary file is attempted if it exists, and none is left
\* unless that removal failed too; the error payload then carries the
\* message of the failed removal.
C28_TempRemovedUnlessUnlinkFails ==
    [][IsExecuteStep =>
          /\ C28_WriteThenRename
          /\ (Threw(disk', "writeFileSync") \/ Threw(disk', "renameSync")) =>
                /\ disk'.temp.exists <=> Threw(disk', "unlinkSync")
                /\ Threw(disk', "unlinkSync") =>
                      disk'.result = WriteError("EBUSY: unlink")]_vars

\* The rename failed after the write, and the temporary file was removed.
C28_Witness ==
    /\ Succeeded(disk, "writeFileSync")
    /\ Threw(disk, "renameSync")
    /\ Succeeded(disk, "unlinkSync")
    /\ ~disk.temp.exists
    /\ disk.target = File(<<"o">>)
    /\ disk.result = WriteError("EPERM: rename")

\* ----------------------------------------- a run of a stripped agent
\* An agent as it is constructed, or as decomposeTask or aggregateConsensus
\* leave it before they run it.
StrippedAgents == {NewAgent, WithoutCompletionTool(NewAgent), WithoutTools(NewAgent)}

StrippedInit ==
    /\ config \in [max_iterations : 1..MaxMainIterations, parallel_agents : {1}]
    /\ agent \in StrippedAgents
    /\ OrchIdle
    /\ ShellIdle

StrippedSpec == StrippedInit /\ [][Next]_vars

\* ------------------------------------------ claims on completion by name
\* Call j of the reply at p is the first one named mark_task_complete.
FirstCompletion(a, p, j) ==
    /\ j \in 1..Len(CallsAt(a, p))
    /\ CallsAt(a, p)[j].name = "mark_task_complete"
    /\ \A i \in 1..(j - 1) : CallsAt(a, p)[i].name # "mark_task_complete"

C39_Malformed ==
    /\ agent.st = "returned"
    /\ \E p \in TurnStarts(agent) :
          /\ FirstCompletion(agent, p, 1)
          /\ Len(CallsAt(agent, p)) = 2
          /\ agent.messages[p + 1].payload = ErrorPayload(ToolFailedError("SyntaxError"))
          /\ Len(agent.messages) = p + 1

\* --------------------------- orchestration with tool calls to every agent
\* The tool-call lists the model sends to the question agent and to the
\* synthesis agent: none, or one call, to a tool or to none, well-formed or
\* not.
StrippedBatches == {b \in Batches : Len(b) <= 1}

RegistryInit ==
    /\ config \in {c \in OrchConfigs : c.parallel_agents <= MaxObservedAgents}
    /\ agent = NewAgent
    /\ OrchIdle
    /\ ShellIdle

\* A model call of the question agent resolves with the array asked for, with
\* or without a tool call.
QuestionToolCall ==
    /\ pc = "decompose" /\ questionAgent.st = "awaitLLM"
    /\ \E calls \in StrippedBatches : \E outs \in OutcomesFor(questionAgent, calls) :
          questionAgent' = OnReply(questionAgent,
                                   [content |-> ArrayText(NumAgents), tool_calls |-> calls], outs)
    /\ UNCHANGED <<shell, config, agent, snapshot,
                   pc, userTask, subtasks, workers, settled, agentProgress,
                   agentResults, results, synthesisAgent, synthesisInput, finalResult>>

\* A model call of the synthesis agent resolves, with or without a tool call.
SynthesisToolCall ==
    /\ pc = "synthesis" /\ synthesisAgent.st = "awaitLLM"
    /\ \E calls \in StrippedBatches : \E outs \in OutcomesFor(synthesisAgent, calls) :
          synthesisAgent' = OnReply(synthesisAgent,
                                    [content |-> <<"S">>, tool_calls |-> calls], outs)
    /\ UNCHANGED <<shell, config, agent, snapshot,
                   pc, userTask, questionAgent, subtasks, workers, settled,
                   agentProgress, agentResults, results, synthesisInput, finalResult>>

RegistryNext ==
    \/ Orchestrate
    \/ QuestionToolCall
    \/ QuestionLLMRejects
    \/ DecomposeReturns
    \/ Dispatch
    \/ \E i \in DOMAIN workers : WorkerLLMResolves(i)
    \/ \E i \in DOMAIN workers : WorkerLLMRejects(i)
    \/ \E i \in DOMAIN workers : WorkerSettles(i)
    \/ Collect
    \/ SynthesisToolCall
    \/ SynthesisLLMRejects
    \/ SynthesisSettles
    \/ GetProgressStatus

RegistrySpec == RegistryInit /\ [][RegistryNext]_vars

\* ------------------------------------------- claims on the tool registry
\* The tool calls of agent a that the dispatch loop got to.
Dispatched31(a) ==
    {pj \in TurnStarts(a) \X (1..3) :
        /\ pj[2] <= Len(CallsAt(a, pj[1]))
        /\ \A i \in 1..(pj[2] - 1) : CallsAt(a, pj[1])[i].name # "mark_task_complete"}

PayloadAt(a, pj) == a.messages[pj[1] + pj[2]].payload

\* The registries of the three kinds of agent of an orchestration: the
\* synthesis agent has no tool and invokes none, the question agent lacks
\* mark_task_complete only, every sub-agent has every tool.
Registries ==
    /\ synthesisAgent.st # "idle" =>
          /\ synthesisAgent.tools = {} /\ synthesisAgent.toolMapping = {}
          /\ synthesisAgent.executed = <<>>
    /\ questionAgent.st # "idle" =>
          /\ questionAgent.tools = AllTools \ {"mark_task_complete"}
          /\ questionAgent.toolMapping = AllTools \ {"mark_task_complete"}
    /\ \A i \in DOMAIN workers :
          /\ workers[i].agent.tools = AllTools /\ workers[i].agent.toolMapping = AllTools
          /\ "mark_task_complete" \in workers[i].agent.toolMapping

C31_QuestionAnswers ==
    /\ pc = "decompose"
    /\ \E pj \in Dispatched31(questionAgent) :
          PayloadAt(questionAgent, pj) = ErrorPayload(UnknownToolError("mark_task_complete"))

\* The synthesis agent has answered a well-formed tool call.
C31_SynthesisAnswers ==
    /\ pc = "synthesis"
    /\ \E pj \in Dispatched31(synthesisAgent) :
          PayloadAt(synthesisAgent, pj) = ErrorPayload(UnknownToolError("calculate"))

C35_ObserverNeverSeesDispatchedQueued ==
    /\ pc \in {"decompose", "dispatch"} => agentProgress = <<>>
    /\ \A i \in DOMAIN workers :
          i \in DOMAIN agentProgress /\ agentProgress[i] # "QUEUED"
    /\ \A i \in DOMAIN agentProgress \ DOMAIN workers : agentProgress[i] = "QUEUED"

\* Five agents asked for, four dispatched and under way, the first model call
\* of each pending.
C35_Witness ==
    /\ pc = "collect"
    /\ NumAgents = 5
    /\ DOMAIN workers = 0..3
    /\ \A i \in 0..3 : workers[i].agent.st = "awaitLLM" /\ workers[i].agent.createCalls = 1
    /\ \A i \in 0..3 : agentProgress[i] = "PROCESSING..."
    /\ agentProgress[4] = "QUEUED"

\* C36: a step of the execution of sub-agent i, which is a step that changes
\* worker i, changes no other worker, and of the progress map and of the
\* stored-results map it writes entry i at most.
C36_SingleWriterPerKey ==
    [][(pc = "collect" /\ pc' = "collect") =>
          \A i \in DOMAIN workers :
             workers'[i] # workers[i] =>
                /\ \A j \in DOMAIN workers \ {i} : workers'[j] = workers[j]
                /\ DOMAIN agentProgress' = DOMAIN agentProgress
                /\ \A j \in DOMAIN agentProgress \ {i} : agentProgress'[j] = agentProgress[j]
                /\ DOMAIN agentResults' \subseteq DOMAIN agentResults \cup {i}
                /\ \A j \in DOMAIN agentResults \ {i} :
                      j \in DOMAIN agentResults' /\ agentResults'[j] = agentResults[j]]_vars

\* Of three agents the second has completed, after the third, and the first
\* is under way.
C36_Witness ==
    /\ pc = "collect"
    /\ DOMAIN workers = 0..2
    /\ workers[0].promise = "pending"
    /\ agentProgress = (0 :> "PROCESSING..." @@ 1 :> "COMPLETED" @@ 2 :> "COMPLETED")
    /\ agentResults = (1 :> <<"R", "b">> @@ 2 :> <<"R", "c">>)

\* Of the statuses the program writes, those that start with 'FAILED: '.
FailedStatuses == {"FAILED: error"}

\* C37: every value of the progress map is QUEUED, INITIALIZING...,
\* PROCESSING..., COMPLETED or a status that starts with 'FAILED: ', and the
\* keys are none or exactly 0..N-1.
C37_ProgressValuesAndKeys ==
    /\ \A i \in DOMAIN agentProgress :
          agentProgress[i] \in
             {"QUEUED", "INITIALIZING...", "PROCESSING...", "COMPLETED"} \cup FailedStatuses
    /\ DOMAIN agentProgress \in {{}, 0..(NumAgents - 1)}

\* Five keys for four dispatched agents, with the three statuses.
C37_Witness ==
    /\ pc = "collect"
    /\ DOMAIN agentProgress = 0..4
    /\ Cardinality(DOMAIN workers) = 4
    /\ {agentProgress[i] : i \in 0..4} = {"QUEUED", "PROCESSING...", "COMPLETED"}

NextInputs == {<<"u">>}

\* agent.run(userInput) is called again after the run before has settled; the
\* counters of that run are dropped, its conversation is what the agent
\* record still holds.
RunAgain ==
    /\ agent.st \in {"returned", "rejected"}
    /\ \E userInput \in NextInputs :
          agent' = RunStart([agent EXCEPT !.createCalls = 0, !.executed = <<>>], userInput)
    /\ UNCHANGED <<shell, config, orchVars>>

RerunNext == Run \/ LLMResolves \/ LLMRejects \/ RunAgain

RerunSpec == StrippedInit /\ [][RerunNext]_vars

\* ------------------------------------------- claims on the conversation
\* b extends a by one assistant message and the results of its tool calls, in
\* their order.
ExtendsByOneTurn(a, b) ==
    LET n == Len(a) IN
    /\ Len(b) > n
    /\ SubSeq(b, 1, n) = a
    /\ b[n + 1].role = "assistant"
    /\ Len(b) = n + 1 + Len(b[n + 1].tool_calls)
    /\ \A j \in 1..Len(b[n + 1].tool_calls) :
          /\ b[n + 1 + j].role = "tool"
          /\ b[n + 1 + j].tool_call_id = b[n + 1].tool_calls[j].id

\* C38: a run starts its first model call with the conversation [system
\* message, user message with the task], also when the agent has run before;
\* while the run lasts the conversation only grows at its end; and the list
\* of a later model call is the list of the call before, one assistant message
\* and the tool-result messages of its tool calls.
C38_ConversationIsAppendOnly ==
    [][/\ (agent.st # "awaitLLM" /\ agent' # agent) =>
             /\ agent'.st = "awaitLLM"
             /\ Len(agent'.messages) = 2
             /\ agent'.messages[1].role = "system"
             /\ agent'.messages[1].content = <<"system_prompt">>
             /\ agent'.messages[2].role = "user"
             /\ agent'.messages[2].content \in UserInputs \cup NextInputs
             /\ agent'.createCalls = 1
       /\ (agent.st = "awaitLLM" /\ agent' # agent) =>
             /\ Len(agent'.messages) >= Len(agent.messages)
             /\ SubSeq(agent'.messages, 1, Len(agent.messages)) = agent.messages
             /\ agent'.st = "awaitLLM" =>
                   /\ agent'.createCalls = agent.createCalls + 1
                   /\ ExtendsByOneTurn(agent.messages, agent'.messages)]_vars

\* The second model call of a second run, after a turn of two tool calls.
C38_Witness ==
    /\ agent.st = "awaitLLM"
    /\ agent.createCalls = 2
    /\ Len(agent.messages) = 5
    /\ agent.messages[2] = UserMessage(<<"u">>)
    /\ agent.messages[3].role = "assistant" /\ Len(agent.messages[3].tool_calls) = 2
    /\ agent.messages[4].role = "tool" /\ agent.messages[5].role = "tool"

\* -------------------------------- orchestration whose model calls settle
\* A step other than a call of orchestrate and the return of decomposeTask: a
\* model call settles, or a continuation that is ready runs.
OrchSettles ==
    \/ QuestionLLMResolves
    \/ QuestionLLMRejects
    \/ Dispatch
    \/ \E i \in DOMAIN workers : WorkerLLMResolves(i)
    \/ \E i \in DOMAIN workers : WorkerLLMRejects(i)
    \/ \E i \in DOMAIN workers : WorkerSettles(i)
    \/ Collect
    \/ SynthesisLLMResolves
    \/ SynthesisLLMRejects
    \/ SynthesisSettles

\* Every model call eventually resolves or rejects, and the event loop runs
\* every continuation that is ready; no caller has to call orchestrate.
\* DecomposeReturns is enabled exactly when the run of the question agent has
\* settled, and its fairness is stated with that condition.  The
\* orchestrations are those of at most MaxObservedAgents agents.
LiveOrchSpec ==
    /\ ObservedInit /\ [][OrchNext]_vars
    /\ WF_vars(OrchSettles)
    /\ \/ []<>~(pc = "decompose" /\ questionAgent.st \in {"returned", "rejected"})
       \/ []<><<DecomposeReturns>>_vars

\* The single agent whose model calls all settle.
LiveSpec == Init /\ [][Next]_vars /\ WF_vars(LLMResolves \/ LLMRejects)

\* ------------------------------------------------ claims on termination
\* Every run of the single agent that has started ends, by returning or by
\* rejecting.
C33_RunTerminates == (agent.st = "awaitLLM") ~> (agent.st \in {"returned", "rejected"})

\* No agent calls the model more than max_iterations times in a run.
C33_AtMostMaxIterationsCalls ==
    /\ agent.createCalls <= config.max_iterations
    /\ questionAgent.createCalls <= config.max_iterations
    /\ synthesisAgent.createCalls <= config.max_iterations
    /\ \A i \in DOMAIN workers : workers[i].agent.createCalls <= config.max_iterations

\* Every orchestrate call settles, by returning or by rejecting.
C33_OrchestrateSettles == (pc = "decompose") ~> (pc \in {"returned", "rejected"})

\* C33: when every model call settles, every orchestrate call eventually
\* returns.
C33_OrchestrateEventuallyReturns == (pc = "decompose") ~> (pc = "returned")

====
